---- MODULE Spec2Model ----
(***************************************************************************)
(* Verification model of the clindoc backend: RAG ingestion and retrieval, *)
(* template rendering and context building, language resolution and the    *)
(* REQUIRED_SECTIONS quality-control rule.                                 *)
(*                                                                         *)
(* The relational store is modelled as sets of rows (records), the file    *)
(* store as a function from storage path to file content.  Every request   *)
(* handler is one action; what the handler returned is recorded in lastOp. *)
(***************************************************************************)
EXTENDS Integers, Sequences, FiniteSets, TLC

VARIABLES
    backend,      \* the database engine behind database_url
    studies,      \* studies table: id -> row
    sourceDocs,   \* source_documents table: set of rows
    files,        \* storage directory: path -> file content
    ragChunks,    \* rag_chunks table: set of rows
    docSeq,       \* source_documents id sequence (PostgreSQL)
    chunkSeq,     \* rag_chunks id sequence (PostgreSQL)
    bgTasks,      \* background ingestion tasks scheduled by upload
    templates,    \* templates table: set of rows
    users,        \* users table: id -> row
    members,      \* study_members table: set of rows
    outputDocs,   \* output_documents table: set of rows
    sections,     \* output_sections table: set of rows
    csrDocs,      \* csr_documents table: set of rows
    csrSections,  \* csr_sections table: set of rows
    sectionVersions, \* output_section_versions table: set of rows
    calls,        \* the service calls in progress: where each is, what it holds
    qcRules,      \* qc_rules table: set of rows
    qcIssues,     \* qc_issues table: set of rows
    issueSeq,     \* qc_issues id sequence (PostgreSQL)
    aiLogs,       \* ai_call_logs table: the rows in insertion order
    now,          \* the database clock behind func.now()
    lastOp        \* the last handler call: its arguments and what it returned

ragVars == <<studies, sourceDocs, files, ragChunks, docSeq, chunkSeq, bgTasks>>

docVars ==
    <<templates, users, members, outputDocs, sections, csrDocs, csrSections, sectionVersions,
      calls>>

qcVars == <<qcRules, qcIssues, issueSeq, aiLogs, now>>

vars == <<backend, ragVars, docVars, qcVars, lastOp>>

None == "None"

NoOp == [op |-> "none"]

\* no service call in progress
NoCalls == <<>>

(***************************************************************************)
(* Bounds of the model.                                                    *)
(***************************************************************************)
MaxDocs == 2
MaxChunkId == 5

(***************************************************************************)
(* Text.  A text is a sequence of tokens; a token is a space, a newline or *)
(* a run of n non-whitespace characters (a "word").  Every operation of    *)
(* the chunker looks only at whitespace, so a run of non-whitespace        *)
(* characters is kept as one token carrying its length.                    *)
(***************************************************************************)
SP == [c |-> "sp", n |-> 1]
NL == [c |-> "nl", n |-> 1]
W(id, n) == [c |-> id, n |-> n]

IsWs(t) == t.c \in {"sp", "nl"}

RECURSIVE StrLen(_)
StrLen(s) == IF s = <<>> THEN 0 ELSE Head(s).n + StrLen(Tail(s))

RECURSIVE LStrip(_)
LStrip(s) == IF s # <<>> /\ IsWs(Head(s)) THEN LStrip(Tail(s)) ELSE s

RECURSIVE RStrip(_)
RStrip(s) ==
    IF s # <<>> /\ IsWs(s[Len(s)]) THEN RStrip(SubSeq(s, 1, Len(s) - 1)) ELSE s

\* str.strip()
Strip(s) == RStrip(LStrip(s))

\* str.split(sep) for a separator of k equal tokens t: leftmost, non-overlapping
RECURSIVE SplitOn(_, _, _, _)
SplitOn(s, t, k, cur) ==
    IF s = <<>> THEN <<cur>>
    ELSE IF Len(s) >= k /\ \A i \in 1..k : s[i] = t
         THEN <<cur>> \o SplitOn(SubSeq(s, k + 1, Len(s)), t, k, <<>>)
         ELSE SplitOn(Tail(s), t, k, Append(cur, Head(s)))

\* sep.join(parts)
RECURSIVE Join(_, _)
Join(parts, sep) ==
    IF parts = <<>> THEN <<>>
    ELSE IF Len(parts) = 1 THEN parts[1]
    ELSE parts[1] \o sep \o Join(Tail(parts), sep)

\* re.sub(r'\n{3,}', '\n\n', text): a maximal run of 3 or more newlines becomes 2
RECURSIVE CollapseNewlines(_, _)
CollapseNewlines(s, run) ==
    IF s = <<>> THEN <<>>
    ELSE IF Head(s) = NL
         THEN (IF run >= 2 THEN <<>> ELSE <<NL>>) \o CollapseNewlines(Tail(s), run + 1)
         ELSE <<Head(s)>> \o CollapseNewlines(Tail(s), 0)

\* re.sub(r' +', ' ', line)
RECURSIVE CollapseSpaces(_, _)
CollapseSpaces(s, inRun) ==
    IF s = <<>> THEN <<>>
    ELSE IF Head(s) = SP
         THEN (IF inRun THEN <<>> ELSE <<SP>>) \o CollapseSpaces(Tail(s), TRUE)
         ELSE <<Head(s)>> \o CollapseSpaces(Tail(s), FALSE)

\* rag_chunking._clean_whitespace
CleanWhitespace(text) ==
    LET t1 == CollapseNewlines(text, 0)
        lines == SplitOn(t1, NL, 1, <<>>)
        cleaned == [i \in 1..Len(lines) |-> CollapseSpaces(Strip(lines[i]), FALSE)]
    IN  Strip(Join(cleaned, <<NL>>))

ParaSep == <<NL, NL>>

\* the stripped, non-empty paragraphs of the text, in order
RECURSIVE NonEmptyStripped(_)
NonEmptyStripped(ps) ==
    IF ps = <<>> THEN <<>>
    ELSE LET p == Strip(Head(ps))
         IN  (IF p = <<>> THEN <<>> ELSE <<p>>) \o NonEmptyStripped(Tail(ps))

\* a finished paragraph group of which only the first paragraph is kept
CloseFirstOnly(current) ==
    LET ct == CleanWhitespace(Head(current))
    IN  IF ct # <<>> THEN <<ct>> ELSE <<>>

\* a finished paragraph group becomes a chunk unless it cleans to nothing
CloseChunk(current) ==
    LET ct == CleanWhitespace(Join(current, ParaSep))
    IN  IF ct # <<>> THEN <<ct>> ELSE <<>>

\* the loop over the paragraphs of chunk_text, and the last chunk after it
RECURSIVE GreedyChunks(_, _, _)
GreedyChunks(ps, current, maxSize) ==
    IF ps = <<>>
    THEN (IF current # <<>> THEN CloseChunk(current) ELSE <<>>)
    ELSE LET test == Join(Append(current, Head(ps)), ParaSep)
         IN  IF current # <<>> /\ StrLen(test) > maxSize
             THEN CloseChunk(current) \o GreedyChunks(Tail(ps), <<Head(ps)>>, maxSize)
             ELSE GreedyChunks(Tail(ps), Append(current, Head(ps)), maxSize)

\* a second pass that merges whatever fits, whatever the size of the chunk
MergesWhateverFits(prev, chunk, maxSize, minSize) ==
    StrLen(prev) + StrLen(chunk) + 2 <= maxSize

\* a second pass that merges every small chunk, whatever the size of the result
MergesWheneverSmall(prev, chunk, maxSize, minSize) == StrLen(chunk) < minSize

\* whether the second pass merges chunk into the chunk before it
MergesIntoPrev(prev, chunk, maxSize, minSize) ==
    /\ StrLen(chunk) < minSize
    /\ StrLen(prev) + StrLen(chunk) + 2 <= maxSize

\* the second pass of chunk_text
RECURSIVE MergeSmall(_, _, _, _)
MergeSmall(chunks, merged, maxSize, minSize) ==
    IF chunks = <<>> THEN merged
    ELSE LET chunk == Head(chunks)
             k == Len(merged)
         IN  IF merged # <<>> /\ MergesIntoPrev(merged[k], chunk, maxSize, minSize)
             THEN MergeSmall(Tail(chunks),
                      [merged EXCEPT ![k] = CleanWhitespace(merged[k] \o ParaSep \o chunk)],
                      maxSize, minSize)
             ELSE MergeSmall(Tail(chunks), Append(merged, chunk), maxSize, minSize)

\* rag_chunking.chunk_text
chunk_text(text, max_chunk_size, min_chunk_size) ==
    LET paragraphs == NonEmptyStripped(SplitOn(text, NL, 2, <<>>))
        chunks == GreedyChunks(paragraphs, <<>>, max_chunk_size)
    IN  IF min_chunk_size > 0
        THEN MergeSmall(chunks, <<>>, max_chunk_size, min_chunk_size)
        ELSE chunks

DefaultMaxChunkSize == 1000
DefaultMinChunkSize == 300

(***************************************************************************)
(* Input sets of the handlers.                                             *)
(***************************************************************************)
Backends == {"postgresql", "sqlite"}
Languages == {"ru", "en"}
SourceTypes == <<"protocol", "sap", "tlf", "csr_prev">>

StudyRows ==
    [id \in {1, 2} |->
        IF id = 1
        THEN [id |-> 1, code |-> "S-001", title |-> "Study One", phase |-> "II",
              indication |-> "Asthma", sponsor_name |-> "Acme"]
        ELSE [id |-> 2, code |-> "S-002", title |-> "Study Two", phase |-> None,
              indication |-> None, sponsor_name |-> None]]

\* file names, as pathlib sees them: the stem and the suffix
FileName(stem, suffix) == [stem |-> stem, suffix |-> suffix]
NoFileName == FileName("", "")
TxtName == FileName("protocol", ".TXT")
PdfName == FileName("sap", ".pdf")
RtfName == FileName("notes", ".rtf")

\* texts a file can hold
TextTwo == <<W("a", 600), NL, NL, W("b", 600)>>
TextOne == <<W("c", 400), SP, SP, W("d", 5)>>
TextBlank == <<SP, NL, NL, NL>>

\* what is on disk under a path
Missing == [kind |-> "missing", text |-> <<>>]
Readable(text) == [kind |-> "ok", text |-> text]
Corrupt(text) == [kind |-> "corrupt", text |-> text]

StoragePath(study_id, file_name) == [study |-> study_id, name |-> file_name]

(***************************************************************************)
(* Text extraction.                                                        *)
(***************************************************************************)
PlainSuffixes == {".txt", ".md"}
ParsedSuffixes == {".pdf", ".docx", ".doc", ".xlsx", ".xls"}

Lower(suffix) == IF suffix = ".TXT" THEN ".txt" ELSE suffix

\* the text returned for a file type that is not supported
UnparsedText(name) ==
    <<W("[[UNPARSED", 10), SP, W("FILE:", 5), SP,
      W(name.stem, Len(name.stem) + Len(name.suffix)), SP, W("-", 1), SP,
      W("file", 4), SP, W("type", 4), SP, W(name.suffix, Len(name.suffix) + 2), SP,
      W("is", 2), SP, W("not", 3), SP, W("supported]]", 11)>>

Returned(text) == [raised |-> FALSE, text |-> text]
Raised == [raised |-> TRUE, text |-> <<>>]

\* text_extraction.extract_text_from_file, reading the file store fs
extract_text_from_file(fs, path) ==
    LET suffix == Lower(path.name.suffix)
        file == fs[path]
    IN  IF suffix \in PlainSuffixes
        THEN (IF file.kind = "missing" THEN Raised ELSE Returned(file.text))
        ELSE IF suffix \in ParsedSuffixes
        THEN (IF file.kind = "ok" THEN Returned(file.text) ELSE Raised)
        ELSE Returned(UnparsedText(path.name))

(***************************************************************************)
(* Primary keys.                                                           *)
(***************************************************************************)
SetMax(S) == IF S = {} THEN 0 ELSE CHOOSE m \in S : \A x \in S : x <= m

\* the id given to the first of the rows inserted next, less one: a sequence
\* under PostgreSQL, the largest rowid in use under SQLite
IdBase(db, usedIds, seq) == IF db = "postgresql" THEN seq ELSE SetMax(usedIds)

NextSeq(db, seq, k) == IF db = "postgresql" THEN seq + k ELSE seq

Ids(rows) == {r.id : r \in rows}

(***************************************************************************)
(* RAG ingestion.                                                          *)
(***************************************************************************)
SourceRow(d) == CHOOSE r \in sourceDocs : r.id = d

\* an update of index_status without its WHERE clause
MarksEveryDocument(rows, d, st) == {[r EXCEPT !.index_status = st] : r \in rows}

\* source.index_status = st, flushed at commit
SetIndexStatus(rows, d, st) ==
    {IF r.id = d THEN [r EXCEPT !.index_status = st] ELSE r : r \in rows}

\* the rag_chunks rows of source document d
ChunksOf(rows, d) == {c \in rows : c.source_document_id = d}

\* an ingestion that forgets to delete the chunks of the earlier run
IngestDeletesNothing(rows, d) == {}

\* the rows deleted before the new chunks are inserted
IngestDeletes(rows, d) == ChunksOf(rows, d)

\* the RagChunk rows built from the chunks, ids base+1, base+2, ...
NewChunkRows(source, chunks, base) ==
    {[id |-> base + i, study_id |-> source.study_id, source_document_id |-> source.id,
      source_type |-> source.type, order_index |-> i - 1, text |-> chunks[i]]
        : i \in 1..Len(chunks)}

\* rag_ingest.ingest_source_document_to_rag(db, d), called by `via`
IngestCall(d, via) ==
    IF d \notin Ids(sourceDocs)
    THEN /\ lastOp' = [op |-> "ingest", via |-> via, doc |-> d, found |-> FALSE,
                       raised |-> TRUE, ret |-> -1, owned |-> 0]
         /\ UNCHANGED <<sourceDocs, ragChunks, chunkSeq>>
    ELSE LET source == SourceRow(d)
             ext == extract_text_from_file(files, StoragePath(source.study_id, source.file_name))
         IN  IF ext.raised
             THEN /\ sourceDocs' = SetIndexStatus(sourceDocs, d, "error")
                  /\ lastOp' = [op |-> "ingest", via |-> via, doc |-> d, found |-> TRUE,
                                raised |-> TRUE, ret |-> -1,
                                owned |-> Cardinality(ChunksOf(ragChunks, d))]
                  /\ UNCHANGED <<ragChunks, chunkSeq>>
             ELSE LET chunks == chunk_text(ext.text, DefaultMaxChunkSize, DefaultMinChunkSize)
                      kept == ragChunks \ IngestDeletes(ragChunks, d)
                      base == IdBase(backend, Ids(kept), chunkSeq)
                  IN  /\ base + Len(chunks) <= MaxChunkId
                      /\ ragChunks' = kept \cup NewChunkRows(source, chunks, base)
                      /\ chunkSeq' = NextSeq(backend, chunkSeq, Len(chunks))
                      /\ sourceDocs' = SetIndexStatus(sourceDocs, d, "indexed")
                      /\ lastOp' = [op |-> "ingest", via |-> via, doc |-> d, found |-> TRUE,
                                    raised |-> FALSE, ret |-> Len(chunks),
                                    owned |-> Cardinality(ChunksOf(ragChunks, d))]

\* POST /rag/ingest/{source_document_id}
IngestEndpoint(d) ==
    /\ IF d \notin Ids(sourceDocs)
       THEN /\ lastOp' = [op |-> "ingest_endpoint", status |-> 404]
            /\ UNCHANGED <<sourceDocs, ragChunks, chunkSeq>>
       ELSE IngestCall(d, "api")
    /\ UNCHANGED <<backend, studies, files, docSeq, bgTasks, docVars, qcVars>>

\* sources._run_ingestion_background: the task scheduled by an upload
RunIngestionBackground(d) ==
    /\ d \in bgTasks
    /\ bgTasks' = bgTasks \ {d}
    /\ IngestCall(d, "background")
    /\ UNCHANGED <<backend, studies, files, docSeq, docVars, qcVars>>

(***************************************************************************)
(* Upload of a source document.                                            *)
(***************************************************************************)
SameSlot(r, study_id, type, language) ==
    r.study_id = study_id /\ r.type = type /\ r.language = language

\* an upload that leaves the earlier documents of the slot current
DemoteNothing(rows, study_id, type, language) == rows

\* the rows after the earlier current documents of the slot are marked not current
DemoteCurrent(rows, study_id, type, language) ==
    {IF SameSlot(r, study_id, type, language) /\ r.is_current
     THEN [r EXCEPT !.is_current = FALSE] ELSE r : r \in rows}

\* POST /sources/{study_id}/upload by a member of the study
UploadSourceDocument(study_id, type, language, file_name, content) ==
    /\ study_id \in DOMAIN studies
    /\ IF file_name = NoFileName \/ language \notin Languages
       THEN /\ lastOp' = [op |-> "upload", status |-> 400]
            /\ UNCHANGED ragVars
       ELSE LET base == IdBase(backend, Ids(sourceDocs), docSeq)
                row == [id |-> base + 1, study_id |-> study_id, type |-> type,
                        file_name |-> file_name, language |-> language,
                        status |-> "active", is_current |-> TRUE,
                        is_rag_enabled |-> TRUE, index_status |-> "not_indexed"]
                demoted == DemoteCurrent(sourceDocs, study_id, type, language)
            IN  /\ base + 1 <= MaxDocs
                /\ files' = [files EXCEPT ![StoragePath(study_id, file_name)] = content]
                /\ sourceDocs' = demoted \cup {row}
                /\ docSeq' = NextSeq(backend, docSeq, 1)
                /\ bgTasks' = bgTasks \cup {row.id}
                /\ lastOp' = [op |-> "upload", status |-> 200, doc |-> row.id]
                /\ UNCHANGED <<studies, ragChunks, chunkSeq>>
    /\ UNCHANGED <<backend, docVars, qcVars>>

(***************************************************************************)
(* The ingestion specification: uploads and ingestion calls, one at a time.*)
(***************************************************************************)
FileNames == {TxtName, PdfName, RtfName}
Paths == {StoragePath(s, n) : s \in DOMAIN StudyRows, n \in FileNames}

\* users 1 and 2; user 1 is a member of both studies, user 2 of study 1
UserRows ==
    [id \in {1, 2} |-> [id |-> id, ui_language |-> IF id = 1 THEN "ru" ELSE "en"]]

MemberRows ==
    {[study_id |-> 1, user_id |-> 1, role |-> "owner"],
     [study_id |-> 2, user_id |-> 1, role |-> "editor"],
     [study_id |-> 1, user_id |-> 2, role |-> "viewer"]}

\* studies with users and members, no source document uploaded yet
InitSources ==
    /\ studies = StudyRows
    /\ users = UserRows
    /\ members = MemberRows
    /\ sourceDocs = {}
    /\ files = [p \in Paths |-> Missing]
    /\ ragChunks = {}
    /\ docSeq = 0
    /\ chunkSeq = 0
    /\ bgTasks = {}

\* no template, no document, no quality-control row
InitNoDocuments ==
    /\ templates = {}
    /\ outputDocs = {}
    /\ sections = {}
    /\ csrDocs = {}
    /\ csrSections = {}
    /\ sectionVersions = {}
    /\ calls = NoCalls
    /\ qcRules = {}
    /\ qcIssues = {}
    /\ issueSeq = 0
    /\ aiLogs = <<>>
    /\ now = 0

InitRag ==
    /\ backend \in Backends
    /\ InitSources
    /\ InitNoDocuments
    /\ lastOp = NoOp

\* what a client may send as the file of a given name
UploadContents(file_name) ==
    IF file_name = TxtName THEN {Readable(TextTwo), Corrupt(TextBlank)}
    ELSE IF file_name = PdfName THEN {Readable(TextOne), Corrupt(TextBlank)}
    ELSE {Readable(TextOne)}

IngestUploads ==
    \E language \in {"ru", "de"}, file_name \in FileNames \cup {NoFileName} :
        \E content \in UploadContents(file_name) :
            UploadSourceDocument(1, "protocol", language, file_name, content)

NextIngest ==
    \/ IngestUploads
    \/ \E d \in 1..MaxDocs + 1 : IngestEndpoint(d)
    \/ \E d \in bgTasks : RunIngestionBackground(d)

SpecIngest == InitRag /\ [][NextIngest]_vars

(***************************************************************************)
(* RAG retrieval.                                                          *)
(***************************************************************************)
\* an optional argument: left out (the default applies) or given
NoArg == [given |-> FALSE, v |-> <<>>]
Arg(x) == [given |-> TRUE, v |-> x]

\* `if x` for an optional string
Truthy(x) == x \notin {None, ""}

DefaultLimitPerSource == 5

\* the set of elements of a list
Range(seq) == {seq[i] : i \in 1..Len(seq)}

\* a language query that leaves out the chunks of documents that are not current, not
\* active or not enabled for retrieval
OnlyCurrentCandidates(rows, docs, study_id, stype, content_language) ==
    {c \in rows :
        /\ c.study_id = study_id
        /\ c.source_type = stype
        /\ \E sd \in docs : /\ sd.id = c.source_document_id
                            /\ sd.language = content_language
                            /\ sd.is_current
                            /\ sd.status = "active"
                            /\ sd.is_rag_enabled}

\* SELECT rag_chunks JOIN source_documents ... WHERE language = content_language
MatchingCandidates(rows, docs, study_id, stype, content_language) ==
    {c \in rows :
        /\ c.study_id = study_id
        /\ c.source_type = stype
        /\ \E sd \in docs : sd.id = c.source_document_id /\ sd.language = content_language}

\* SELECT rag_chunks WHERE study_id = ... AND source_type = ...
AnyCandidates(rows, study_id, stype) ==
    {c \in rows : c.study_id = study_id /\ c.source_type = stype}

\* the sort key of ORDER BY in an ordering that sorts by something else
OrderById(c) == c.id

\* the sort key of ORDER BY RagChunk.order_index
OrderKey(c) == c.order_index

\* ORDER BY: every ordering of the rows with non-decreasing key; the engine is
\* free in how it orders rows of equal key
RECURSIVE OrderBy(_)
OrderBy(rows) ==
    IF rows = {} THEN {<<>>}
    ELSE LET first == {c \in rows : \A x \in rows : OrderKey(c) <= OrderKey(x)}
         IN  UNION {{<<c>> \o rest : rest \in OrderBy(rows \ {c})} : c \in first}

\* LIMIT n
Limit(seq, n) == SubSeq(seq, 1, IF n < Len(seq) THEN n ELSE Len(seq))

\* the lists a query ... ORDER BY order_index LIMIT n can return
Query(rows, n) == {Limit(seq, n) : seq \in OrderBy(rows)}

\* a retrieval that never falls back to the other languages
NoFallback(matching, rows, study_id, stype, limit) == matching

\* the `else` of `if matching_chunks`: the unrestricted query
Fallback(matching, rows, study_id, stype, limit) ==
    Query(AnyCandidates(rows, study_id, stype), limit)

\* the lists retrieve_rag_chunks can put under one source type
ChunksForType(rows, docs, study_id, stype, limit, content_language) ==
    IF Truthy(content_language) /\ content_language \in {"ru", "en"}
    THEN LET matching == Query(MatchingCandidates(rows, docs, study_id, stype,
                                                  content_language), limit)
         IN  (matching \ {<<>>}) \cup
                 (IF <<>> \in matching
                  THEN Fallback(matching, rows, study_id, stype, limit) ELSE {})
    ELSE Query(AnyCandidates(rows, study_id, stype), limit)

\* the loop over source_types: every mapping it can build, result[stype] = chunks
RECURSIVE RetrieveLoop(_, _, _, _, _, _, _)
RetrieveLoop(rows, docs, study_id, types, limit, content_language, result) ==
    IF types = <<>> THEN {result}
    ELSE UNION {RetrieveLoop(rows, docs, study_id, Tail(types), limit, content_language,
                    [t \in DOMAIN result \cup {Head(types)} |->
                        IF t = Head(types) THEN chunks ELSE result[t]])
                : chunks \in ChunksForType(rows, docs, study_id, Head(types), limit,
                                           content_language)}

\* rag_retrieval.retrieve_rag_chunks: every mapping it can return
retrieve_rag_chunks(rows, docs, study_id, source_types, limit_per_source, content_language) ==
    RetrieveLoop(rows, docs, study_id,
                 IF source_types.given THEN source_types.v ELSE SourceTypes,
                 limit_per_source, content_language, <<>>)

\* rag_retrieval.build_rag_context_text
build_rag_context_text(chunks_by_type) ==
    [t \in DOMAIN chunks_by_type |->
        Join([i \in 1..Len(chunks_by_type[t]) |-> chunks_by_type[t][i].text], ParaSep)]

\* a call of retrieve_rag_chunks by a service or handler
RetrieveRagChunks(study_id, source_types, limit_per_source, content_language) ==
    /\ \E result \in retrieve_rag_chunks(ragChunks, sourceDocs, study_id, source_types,
                                         limit_per_source, content_language) :
          lastOp' = [op |-> "retrieve", study |-> study_id, types |-> source_types,
                     limit |-> limit_per_source, language |-> content_language,
                     result |-> result]
    /\ UNCHANGED <<backend, ragVars, docVars, qcVars>>

(***************************************************************************)
(* Template context.                                                       *)
(***************************************************************************)
\* Python values of a context: a string, an int or None, with its str() form
PyStr(text) == [t |-> "str", s |-> text]
PyInt(digits) == [t |-> "int", s |-> <<W(digits, Len(digits))>>]
PyNone == [t |-> "none", s |-> <<W("None", 4)>>]

Word(w) == PyStr(<<W(w, Len(w))>>)

OrNone(x) == IF x = None THEN PyNone ELSE Word(x)

StudyKeys == {"study_id", "study_code", "study_title", "phase", "indication", "sponsor_name"}

\* key_mapping of add_rag_context_to_template_context
ContextKey(stype) ==
    CASE stype = "protocol" -> "context_protocol"
      [] stype = "sap" -> "context_sap"
      [] stype = "tlf" -> "context_tlf_summary"
      [] stype = "csr_prev" -> "context_csr_prev"

ContextKeys == {ContextKey(SourceTypes[i]) : i \in 1..Len(SourceTypes)}

TypeOfContextKey(k) == CHOOSE t \in Range(SourceTypes) : ContextKey(t) = k

\* the base context built from the Study row
StudyContext(study) ==
    [k \in StudyKeys |->
        CASE k = "study_id" -> PyInt(IF study.id = 1 THEN "1" ELSE "2")
          [] k = "study_code" -> Word(study.code)
          [] k = "study_title" -> Word(study.title)
          [] k = "phase" -> OrNone(study.phase)
          [] k = "indication" -> OrNone(study.indication)
          [] k = "sponsor_name" -> OrNone(study.sponsor_name)]

\* template_context.add_rag_context_to_template_context, given what retrieval returned
add_rag_context_to_template_context(ctx, chunks_by_type) ==
    LET rag_context == build_rag_context_text(chunks_by_type)
    IN  [k \in DOMAIN ctx \cup ContextKeys |->
            IF k \in ContextKeys
            THEN PyStr(IF TypeOfContextKey(k) \in DOMAIN rag_context
                       THEN rag_context[TypeOfContextKey(k)] ELSE <<>>)
            ELSE ctx[k]]

\* an update that keeps the computed value of a key that is already there
UpdateKeepsBase(ctx, extra) ==
    [k \in DOMAIN ctx \cup DOMAIN extra |-> IF k \in DOMAIN ctx THEN ctx[k] ELSE extra[k]]

\* dict.update
DictUpdate(ctx, extra) ==
    [k \in DOMAIN ctx \cup DOMAIN extra |-> IF k \in DOMAIN extra THEN extra[k] ELSE ctx[k]]

\* a context that prefers the chunks of documents in the language of the call
PrefersCallLanguage(language) == language

\* the content_language of the retrieval for a context: retrieve_rag_chunks(db, study_id)
\* is called without one, whatever the language of the call
ContextContentLanguage(language) == None

\* the language of a call of build_template_context that passes none
DefaultContextLanguage == "ru"

\* template_context.build_template_context(db, study_id, extra_context, language) for a
\* study that exists: every context it can return, with what retrieval gave it
build_template_context(study_id, extra_context, language) ==
    {[rag |-> rag,
      ctx |-> LET base == add_rag_context_to_template_context(
                              StudyContext(studies[study_id]), rag)
              IN  IF extra_context.given /\ DOMAIN extra_context.v # {}
                  THEN DictUpdate(base, extra_context.v) ELSE base]
        : rag \in retrieve_rag_chunks(ragChunks, sourceDocs, study_id, NoArg,
                                      DefaultLimitPerSource,
                                      ContextContentLanguage(language))}

\* a call of build_template_context by a service or handler
BuildTemplateContext(study_id, extra_context, language) ==
    /\ IF study_id \notin DOMAIN studies
       THEN lastOp' = [op |-> "context", study |-> study_id, extra |-> extra_context,
                       language |-> language, raised |-> TRUE, rag |-> <<>>, ctx |-> <<>>]
       ELSE \E r \in build_template_context(study_id, extra_context, language) :
               lastOp' = [op |-> "context", study |-> study_id, extra |-> extra_context,
                          language |-> language, raised |-> FALSE, rag |-> r.rag,
                          ctx |-> r.ctx]
    /\ UNCHANGED <<backend, ragVars, docVars, qcVars>>

(***************************************************************************)
(* The retrieval specification: documents are uploaded and indexed, and    *)
(* the stored chunks are retrieved and put into template contexts.         *)
(***************************************************************************)
RetrieveUploads ==
    \/ UploadSourceDocument(1, "protocol", "ru", TxtName, Readable(TextTwo))
    \/ UploadSourceDocument(1, "protocol", "en", PdfName, Readable(TextOne))
    \/ UploadSourceDocument(2, "sap", "en", PdfName, Readable(TextOne))

RequestedTypes == {NoArg, Arg(<<"sap", "protocol">>)}
RequestedLimits == {0, 1, DefaultLimitPerSource}
RequestedLanguages == {"ru", "en", "de"}

ExtraContexts ==
    {NoArg, Arg(<<>>),
     Arg([k \in {"study_id", "phase"} |-> IF k = "phase" THEN PyNone ELSE Word("X-9")]),
     Arg([k \in {"context_protocol", "author"} |-> Word("mine")])}

NextRetrieve ==
    \/ RetrieveUploads
    \/ \E d \in bgTasks : RunIngestionBackground(d)
    \/ \E study_id \in DOMAIN StudyRows, source_types \in RequestedTypes,
          limit \in RequestedLimits, language \in RequestedLanguages :
            RetrieveRagChunks(study_id, source_types, limit, language)
    \/ \E study_id \in 1..3, extra_context \in ExtraContexts, language \in Languages :
            BuildTemplateContext(study_id, extra_context, language)

SpecRetrieve == InitRag /\ [][NextRetrieve]_vars

(***************************************************************************)
(* Template rendering.  A template body is a text whose braces and         *)
(* identifier characters are tokens of their own.                          *)
(***************************************************************************)
LB == W("{", 1)
RB == W("}", 1)

\* the runs of characters of [a-zA-Z0-9_] that the texts of the model use
IdentChars == {"a", "b", "study_code", "context_protocol"}

IsIdent(t) == t.c \in IdentChars

\* the length of the longest run of identifier characters of s that starts at i
RECURSIVE IdentRun(_, _)
IdentRun(s, i) == IF i <= Len(s) /\ IsIdent(s[i]) THEN 1 + IdentRun(s, i + 1) ELSE 0

\* the length k of the identifier when \{\{([a-zA-Z0-9_]+)\}\} matches at i, else 0
MatchAt(s, i) ==
    IF i + 1 <= Len(s) /\ s[i] = LB /\ s[i + 1] = LB
    THEN LET k == IdentRun(s, i + 2)
         IN  IF k >= 1 /\ i + k + 3 <= Len(s) /\ s[i + k + 2] = RB /\ s[i + k + 3] = RB
             THEN k ELSE 0
    ELSE 0

\* match.group(1): the identifier as a string
RECURSIVE NameOf(_)
NameOf(s) == IF s = <<>> THEN "" ELSE Head(s).c \o NameOf(Tail(s))

\* str(value) for every value, None included
PythonStr(value) == value.s

\* str(value) if value is not None else ""
ValueText(value) == IF value.t = "none" THEN <<>> ELSE value.s

\* d[k] = v
DictSet(d, k, v) == [x \in DOMAIN d \cup {k} |-> IF x = k THEN v ELSE d[x]]

\* re.sub(pattern, replace_placeholder, template_text) from position i on
RECURSIVE Substitute(_, _, _, _)
Substitute(s, i, context, acc) ==
    IF i > Len(s) THEN acc
    ELSE LET k == MatchAt(s, i)
         IN  IF k = 0
             THEN Substitute(s, i + 1, context, [acc EXCEPT !.text = Append(@, s[i])])
             ELSE LET var_name == NameOf(SubSeq(s, i + 2, i + k + 1))
                  IN  IF var_name \in DOMAIN context
                      THEN Substitute(s, i + k + 4, context,
                               [acc EXCEPT !.text = @ \o ValueText(context[var_name]),
                                           !.used = DictSet(@, var_name,
                                                            ValueText(context[var_name]))])
                      ELSE Substitute(s, i + k + 4, context,
                               [acc EXCEPT !.text = @ \o SubSeq(s, i, i + k + 3),
                                           !.missing = IF var_name \in Range(@) THEN @
                                                       ELSE Append(@, var_name)])

\* template_renderer.render_template_string
render_template_string(template_text, context) ==
    Substitute(template_text, 1, context, [text |-> <<>>, used |-> <<>>, missing |-> <<>>])

\* template_renderer.render_template_content(template, context), template given by id
RenderTemplateContent(template_id, context) ==
    /\ \E template \in templates :
          /\ template.id = template_id
          /\ LET r == render_template_string(template.content, context)
             IN  lastOp' = [op |-> "render", template |-> template.content,
                            context |-> context, raised |-> FALSE, text |-> r.text,
                            used |-> r.used, missing |-> r.missing]
    /\ UNCHANGED <<backend, ragVars, docVars, qcVars>>

(***************************************************************************)
(* The rendering specification: one stored template, rendered with the     *)
(* contexts callers pass.                                                  *)
(***************************************************************************)
MaxPieces == 3

Pieces ==
    {<<LB>>, <<RB>>, <<W("a", 1)>>, <<SP>>, <<LB, LB, W("a", 1)>>, <<RB, RB>>,
     <<LB, LB, W("a", 1), RB, RB>>, <<LB, LB, W("b", 1), RB, RB>>}

\* the texts made of at most n pieces
RECURSIVE TextsOf(_)
TextsOf(n) ==
    IF n = 0 THEN {<<>>}
    ELSE TextsOf(n - 1) \cup {t \o p : t \in TextsOf(n - 1), p \in Pieces}

TemplateRow(id, type, section_code, language, content) ==
    [id |-> id, type |-> type, section_code |-> section_code, language |-> language,
     content |-> content, is_active |-> TRUE, is_default |-> TRUE, version |-> 1]

RenderValues == {Word("x"), PyNone, PyStr(<<LB, LB, W("b", 1), RB, RB>>)}

RenderContexts ==
    UNION {[keys -> RenderValues] : keys \in SUBSET {"a", "b"}}

InitRender ==
    /\ backend = "postgresql"
    /\ InitSources
    /\ \E content \in TextsOf(MaxPieces) :
          templates = {TemplateRow(1, "section_text", "SYNOPSIS", "en", content)}
    /\ outputDocs = {}
    /\ sections = {}
    /\ csrDocs = {}
    /\ csrSections = {}
    /\ sectionVersions = {}
    /\ calls = NoCalls
    /\ qcRules = {}
    /\ qcIssues = {}
    /\ issueSeq = 0
    /\ aiLogs = <<>>
    /\ now = 0
    /\ lastOp = NoOp

NextRender ==
    \E template_id \in {1}, context \in RenderContexts :
        RenderTemplateContent(template_id, context)

SpecRender == InitRender /\ [][NextRender]_vars

(***************************************************************************)
(* Content language.                                                       *)
(***************************************************************************)
\* a resolution that asks the user before the document
ResolveUserFirst(document, user, request_language) ==
    IF user.given /\ Truthy(user.v.ui_language) /\ user.v.ui_language \in {"ru", "en"}
    THEN user.v.ui_language
    ELSE IF document.given /\ Truthy(document.v.language)
            /\ document.v.language \in {"ru", "en"}
    THEN document.v.language
    ELSE IF request_language \in {"ru", "en"} THEN request_language
    ELSE "en"

\* language_resolver.resolve_content_language; document and user may be None
resolve_content_language(document, user, request_language) ==
    IF document.given /\ Truthy(document.v.language) /\ document.v.language \in {"ru", "en"}
    THEN document.v.language
    ELSE IF user.given /\ Truthy(user.v.ui_language) /\ user.v.ui_language \in {"ru", "en"}
    THEN user.v.ui_language
    ELSE IF request_language \in {"ru", "en"} THEN request_language
    ELSE "en"

\* a call of resolve_content_language by a handler
ResolveContentLanguage(document, user, request_language) ==
    /\ lastOp' = [op |-> "resolve", document |-> document, user |-> user,
                  request_language |-> request_language,
                  ret |-> resolve_content_language(document, user, request_language)]
    /\ UNCHANGED <<backend, ragVars, docVars, qcVars>>

(***************************************************************************)
(* The language specification: the resolver called with every kind of      *)
(* document, user and request language.                                    *)
(***************************************************************************)
LanguageValues == {None, "", "ru", "en", "de"}

NoObject == [given |-> FALSE, v |-> [language |-> None, ui_language |-> None]]

DocumentArgs ==
    {NoObject} \cup {Arg([language |-> l, ui_language |-> None]) : l \in LanguageValues}

UserArgs ==
    {NoObject} \cup {Arg([language |-> None, ui_language |-> l]) : l \in LanguageValues}

RequestLanguages == {"ru", "en", "de", ""}

InitLang ==
    /\ backend = "postgresql"
    /\ InitSources
    /\ InitNoDocuments
    /\ lastOp = NoOp

NextLang ==
    \E document \in DocumentArgs, user \in UserArgs, request_language \in RequestLanguages :
        ResolveContentLanguage(document, user, request_language)

SpecLang == InitLang /\ [][NextLang]_vars

(***************************************************************************)
(* Quality control: the REQUIRED_SECTIONS rule.                            *)
(***************************************************************************)
MaxClock == 2

DEFAULT_CSR_SECTIONS ==
    <<[code |-> "SYNOPSIS", title |-> <<W("Synopsis", 8)>>],
      [code |-> "EFFICACY", title |-> <<W("Efficacy", 8), SP, W("Results", 7)>>],
      [code |-> "SAFETY", title |-> <<W("Safety", 6), SP, W("Results", 7)>>],
      [code |-> "PK", title |-> <<W("Pharmacokinetics", 16)>>],
      [code |-> "DISCUSSION", title |-> <<W("Discussion", 10)>>]>>

\* a format field {name} of a message
Field(name) == W("{" \o name \o "}", Len(name) + 2)

\* i18n MESSAGES (the Russian wording transliterated)
MESSAGES ==
    [ru |-> [QC_MISSING_SECTION |->
                <<W("Otsutstvuet", 11), SP, W("obyazatelnaya", 12), SP, W("sekciya:", 7), SP,
                  Field("section_title"), SP, W("(", 1), Field("code"), W(")", 1)>>],
     en |-> [QC_MISSING_SECTION |->
                <<W("Missing", 7), SP, W("required", 8), SP, W("section:", 8), SP,
                  Field("section_title"), SP, W("(", 1), Field("code"), W(")", 1)>>]]

\* str.format(**kwargs)
RECURSIVE Format(_, _)
Format(message, kwargs) ==
    IF message = <<>> THEN <<>>
    ELSE LET fields == {k \in DOMAIN kwargs : Field(k) = Head(message)}
         IN  (IF fields # {} THEN kwargs[CHOOSE k \in fields : TRUE] ELSE <<Head(message)>>)
                 \o Format(Tail(message), kwargs)

\* str.lower() of a language code
LowerLang(language) ==
    CASE language = "RU" -> "ru"
      [] language = "ru-RU" -> "ru-ru"
      [] language = "EN" -> "en"
      [] OTHER -> language

StartsWithRu(language) == language \in {"ru", "ru-ru"}

\* i18n.t(key, language, **kwargs)
Translate(key, language, kwargs) ==
    LET normalized_lang ==
            IF Truthy(language) /\ StartsWithRu(LowerLang(language)) THEN "ru" ELSE "en"
    IN  Format(MESSAGES[normalized_lang][key], kwargs)

QC_CONFIG ==
    [ru |-> [required_sections |-> [enabled |-> TRUE, severity |-> "warning"]],
     en |-> [required_sections |-> [enabled |-> TRUE, severity |-> "warning"]]]

\* qc_config.get_qc_rule_config("REQUIRED_SECTIONS", language)
get_qc_rule_config(language) ==
    QC_CONFIG[IF language \in {"ru", "en"} THEN language ELSE "en"].required_sections

RequiredSectionsRule(id, is_active) ==
    [id |-> id, code |-> "REQUIRED_SECTIONS", severity |-> "warning", is_active |-> is_active]

\* qc_rules.get_or_create_required_sections_rule: the rule row it returns
get_or_create_required_sections_rule(rules) ==
    IF \E r \in rules : r.code = "REQUIRED_SECTIONS"
    THEN CHOOSE r \in rules : r.code = "REQUIRED_SECTIONS"
    ELSE RequiredSectionsRule(SetMax(Ids(rules)) + 1, TRUE)

\* a check that reports every required code, present or not
AllRequired(required_codes, existing_codes) == required_codes

\* missing_codes = required_codes - existing_codes
MissingCodes(required_codes, existing_codes) == required_codes \ existing_codes

\* the open issues of a document and a rule
OpenIssuesOf(issues, document_id, rule_id) ==
    {i \in issues : i.document_id = document_id /\ i.rule_id = rule_id /\ i.status = "open"}

\* a reconciliation that clears every issue of the document, whatever its status or rule
QcDeletesAllOfDocument(issues, document_id, rule_id) ==
    {i \in issues : i.document_id = document_id}

\* a reconciliation that leaves the issues of the earlier run in place
QcDeletesNothing(issues, document_id, rule_id) == {}

\* the rows deleted before the current findings are inserted
QcDeletes(issues, document_id, rule_id) == OpenIssuesOf(issues, document_id, rule_id)

\* the orders in which `for code in missing_codes` can visit a set
RECURSIVE Orderings(_)
Orderings(codes) ==
    IF codes = {} THEN {<<>>}
    ELSE UNION {{<<c>> \o rest : rest \in Orderings(codes \ {c})} : c \in codes}

\* the QCIssue rows inserted for the codes, ids base+1, base+2, ... in loop order
NewIssueRows(order, base, document_id, study_id, rule, severity, language, created_at) ==
    {[id |-> base + i, study_id |-> study_id, document_id |-> document_id,
      section_id |-> None, rule_id |-> rule.id, severity |-> severity, status |-> "open",
      message |-> Translate("QC_MISSING_SECTION", language,
                     [k \in {"section_title", "code"} |->
                         IF k = "code" THEN <<W(order[i], Len(order[i]))>>
                         ELSE (CHOOSE sec \in Range(DEFAULT_CSR_SECTIONS) :
                                   sec.code = order[i]).title]),
      created_at |-> created_at]
        : i \in 1..Len(order)}

IssueSummary(issues) == {[id |-> i.id, message |-> i.message] : i \in issues}

\* qc_rules.run_qc_rules_for_document -> check_required_sections, called by `via`
RunQcCall(document_id, study_id, language, via, caller) ==
    LET rule == get_or_create_required_sections_rule(qcRules)
        rule_config == get_qc_rule_config(language)
        checked == /\ rule.is_active
                   /\ rule_config.enabled
                   /\ \E d \in outputDocs : d.id = document_id
        op == [op |-> "run_qc", via |-> via, status |-> 200, caller |-> caller,
               doc |-> document_id, study |-> study_id, language |-> language,
               again |-> /\ lastOp.op = "run_qc"
                         /\ lastOp.checked
                         /\ lastOp.doc = document_id
                         /\ lastOp.language = language,
               before |-> IssueSummary(OpenIssuesOf(qcIssues, document_id, rule.id))]
    IN  /\ qcRules' = qcRules \cup {rule}
        /\ IF ~checked
           THEN /\ lastOp' = [checked |-> FALSE, ret |-> {}] @@ op
                /\ UNCHANGED <<qcIssues, issueSeq, now>>
           ELSE LET existing_codes == {sec.code : sec \in {x \in sections :
                                                        x.document_id = document_id}}
                    required_codes == {sec.code : sec \in Range(DEFAULT_CSR_SECTIONS)}
                    missing_codes == MissingCodes(required_codes, existing_codes)
                    kept == qcIssues \ QcDeletes(qcIssues, document_id, rule.id)
                    base == IdBase(backend, Ids(kept), issueSeq)
                IN  /\ now < MaxClock
                    /\ \E order \in Orderings(missing_codes) :
                          LET issues == NewIssueRows(order, base, document_id, study_id, rule,
                                                     rule_config.severity, language, now + 1)
                          IN  /\ qcIssues' = kept \cup issues
                              /\ lastOp' = [checked |-> TRUE, ret |-> issues] @@ op
                    /\ issueSeq' = NextSeq(backend, issueSeq, Cardinality(missing_codes))
                    /\ now' = now + 1

\* a service-level call of run_qc_rules_for_document
RunQcRulesForDocument(document_id, study_id, language) ==
    /\ RunQcCall(document_id, study_id, language, "service", [user |-> 0, accept |-> ""])
    /\ UNCHANGED <<backend, ragVars, docVars, aiLogs>>

(***************************************************************************)
(* The quality-control specification: documents with sections, and         *)
(* run_qc called on them in the two languages.                             *)
(***************************************************************************)
SectionRows(document_id, codes) ==
    {[id |-> 10 * document_id + i, document_id |-> document_id, code |-> codes[i],
      order_index |-> i] : i \in 1..Len(codes)}

OutputDocumentRow(id, study_id, language) ==
    [id |-> id, study_id |-> study_id, language |-> language]

\* the sections document 1 can have: two of the required ones, or all and one more
SectionChoices ==
    {<<"SYNOPSIS", "EFFICACY">>,
     <<"SYNOPSIS", "EFFICACY", "SAFETY", "PK", "DISCUSSION", "APPENDIX">>}

\* an issue of document 1 with a status and a rule, as stored by an earlier run
\* and then triaged by a user
StoredIssue(id, rule_id, issue_status, code, title) ==
    [id |-> id, study_id |-> 1, document_id |-> 1, section_id |-> None, rule_id |-> rule_id,
     severity |-> "warning", status |-> issue_status,
     message |-> Translate("QC_MISSING_SECTION", "en",
                    [k \in {"section_title", "code"} |->
                        IF k = "code" THEN <<W(code, Len(code))>> ELSE title]),
     created_at |-> 0]

ResolvedIssue == StoredIssue(1, 1, "resolved", "SAFETY", <<W("Safety", 6), SP, W("Results", 7)>>)

WontFixIssue == StoredIssue(2, 1, "wont_fix", "PK", <<W("Pharmacokinetics", 16)>>)

\* a rule other than REQUIRED_SECTIONS, with an open issue of document 1
OtherRule == [id |-> 2, code |-> "SECTION_LENGTH", severity |-> "info", is_active |-> TRUE]

OtherRuleIssue == StoredIssue(3, 2, "open", "DISCUSSION", <<W("Discussion", 10)>>)

InitQC ==
    /\ backend \in Backends
    /\ InitSources
    /\ templates = {}
    /\ outputDocs = {OutputDocumentRow(1, 1, "en"), OutputDocumentRow(2, 2, "ru")}
    /\ \E codes \in SectionChoices :
          sections = SectionRows(1, codes)
                        \cup SectionRows(2, <<"SYNOPSIS", "EFFICACY", "SAFETY", "PK">>)
    /\ csrDocs = {}
    /\ csrSections = {}
    /\ sectionVersions = {}
    /\ calls = NoCalls
    /\ \E is_active \in BOOLEAN :
          \/ qcRules = {} /\ qcIssues = {} /\ issueSeq = 0
          \/ qcRules = {RequiredSectionsRule(1, is_active)} /\ qcIssues = {} /\ issueSeq = 0
          \/ /\ qcRules = {RequiredSectionsRule(1, is_active), OtherRule}
             /\ qcIssues = {ResolvedIssue, WontFixIssue, OtherRuleIssue}
             /\ issueSeq = 3
    /\ aiLogs = <<>>
    /\ now = 0
    /\ lastOp = NoOp

QcLanguages == {"ru", "en", "de"}

NextQC ==
    \E document_id \in 1..3, language \in QcLanguages :
        RunQcRulesForDocument(document_id, IF document_id = 2 THEN 2 ELSE 1, language)

SpecQC == InitQC /\ [][NextQC]_vars

(***************************************************************************)
(* The AI prompt builder.                                                  *)
(***************************************************************************)
\* the fixed lines of the prompt in the two languages (the Russian wording
\* transliterated, each word with its original length); {x} is a format field
PromptText ==
    [ru |->
     [intro |-> <<<<W("Ty", 2), SP, W("-", 1), SP, W("ekspert", 7), SP, W("po", 2), SP,
         W("napisaniyu", 9), SP, W("razdelov", 8), SP, W("Clinical", 8), SP, W("Study", 5), SP,
         W("Report", 6), SP, W("(CSR)", 5), SP, W("dlya", 3), SP, W("klinicheskih", 11), SP,
         W("issledovaniy.", 13)>>,
                <<W("Ty", 2), SP, W("rabotaesh", 9), SP, W("nad", 3), SP,
                    W("issledovaniem:", 14), SP, Field("study.title"), SP, W("(kod:", 5),
                    SP, Field("study.code"), W(").", 2)>>,
                <<W("Tebe", 4), SP, W("nuzhno", 5), SP, W("sgenerirovat", 13), SP, W("ili", 3),
                    SP, W("uluchshit", 8), SP, W("tekst", 5), SP, W("dlya", 3), SP,
                    W("razdela:", 8), SP, Field("section.title"), SP, W("(kod:", 5), SP,
                    Field("section.code"), W(").", 2)>>,
                <<>>,
                <<W("Format", 6), SP, W("otveta:", 7)>>,
                <<W("-", 1), SP, W("Tekst", 5), SP, W("dolzhen", 6), SP, W("byt", 4), SP,
                    W("strukturirovannym,", 18), SP, W("professionalnym", 16), SP, W("i", 1),
                    SP, W("sootvetstvovat", 15), SP, W("standartam", 10), SP, W("CSR.", 4)>>,
                <<W("-", 1), SP, W("Ispolzuy", 9), SP, W("tolko", 6), SP, W("informaciyu", 10),
                    SP, W("iz", 2), SP, W("predostavlennogo", 16), SP, W("konteksta.", 10)>>,
                <<W("-", 1), SP, W("Esli", 4), SP, W("v", 1), SP, W("kontekste", 9), SP,
                    W("nedostatochno", 12), SP, W("informacii,", 11), SP, W("ukazhi", 5), SP,
                    W("eto", 3), SP, W("v", 1), SP, W("sootvetstvuyuschih", 15), SP,
                    W("mestah.", 7)>>,
                <<W("-", 1), SP, W("Pishi", 4), SP, W("na", 2), SP, W("russkom", 7), SP,
                    W("yazyke,", 6), SP, W("ispolzuya", 9), SP, W("medicinskuyu", 11), SP,
                    W("terminologiyu.", 13)>>>>,
      phase |-> <<W("-", 1), SP, W("Faza", 4), SP, W("issledovaniya:", 13), SP,
          Field("study.phase"), W(".", 1)>>,
      indication |-> <<W("-", 1), SP, W("Pokazanie", 9), SP, W("k", 1), SP,
          W("primeneniyu:", 11), SP, Field("study.indication"), W(".", 1)>>,
      sponsor |-> <<W("-", 1), SP, W("Sponsor:", 8), SP, Field("study.sponsor_name"), W(".", 1)>>,
      context_header |-> <<W("===", 3), SP, W("KONTEKST", 8), SP, W("IZ", 2), SP,
          W("ISHODNYH", 8), SP, W("DOKUMENTOV", 10), SP, W("===", 3)>>,
      protocol |-> <<W("---", 3), SP, W("PROTOKOL", 8), SP, W("ISSLEDOVANIYa", 12), SP,
          W("---", 3)>>,
      sap |-> <<W("---", 3), SP, W("SAP", 3), SP, W("(Statistical", 12), SP, W("Analysis", 8),
          SP, W("Plan)", 5), SP, W("---", 3)>>,
      tlf |-> <<W("---", 3), SP, W("TLF", 3), SP, W("(Table,", 7), SP, W("Listing,", 8), SP,
          W("Figure)", 7), SP, W("-", 1), SP, W("Svodnye", 7), SP, W("dannye", 6), SP,
          W("---", 3)>>,
      csr_prev |-> <<W("---", 3), SP, W("PREDYDUSchIY", 10), SP, W("CSR", 3), SP, W("---", 3)>>,
      current_header |-> <<W("===", 3), SP, W("TEKUSchIY", 7), SP, W("TEKST", 5), SP,
          W("RAZDELA", 7), SP, W("===", 3)>>,
      extra_header |-> <<W("===", 3), SP, W("DOPOLNITELNYE", 14), SP, W("INSTRUKCII", 10), SP,
          W("===", 3)>>,
      task_header |-> <<W("===", 3), SP, W("ZADANIE", 7), SP, W("===", 3)>>,
      task |-> <<W("Sgeneriruy", 10), SP, W("tekst", 5), SP, W("razdela", 7), SP, W("CSR", 3),
          SP, W("na", 2), SP, W("osnove", 6), SP, W("privedennogo", 12), SP,
          W("konteksta.", 10)>>],
     en |->
     [intro |-> <<<<W("You", 3), SP, W("are", 3), SP, W("an", 2), SP, W("expert", 6), SP,
         W("in", 2), SP, W("writing", 7), SP, W("Clinical", 8), SP, W("Study", 5), SP,
         W("Report", 6), SP, W("(CSR)", 5), SP, W("sections", 8), SP, W("for", 3), SP,
         W("clinical", 8), SP, W("trials.", 7)>>,
                <<W("You", 3), SP, W("are", 3), SP, W("working", 7), SP, W("on", 2), SP,
                    W("the", 3), SP, W("study:", 6), SP, Field("study.title"), SP,
                    W("(code:", 6), SP, Field("study.code"), W(").", 2)>>,
                <<W("You", 3), SP, W("need", 4), SP, W("to", 2), SP, W("generate", 8), SP,
                    W("or", 2), SP, W("improve", 7), SP, W("text", 4), SP, W("for", 3), SP,
                    W("the", 3), SP, W("section:", 8), SP, Field("section.title"), SP,
                    W("(code:", 6), SP, Field("section.code"), W(").", 2)>>,
                <<>>,
                <<W("Response", 8), SP, W("format:", 7)>>,
                <<W("-", 1), SP, W("The", 3), SP, W("text", 4), SP, W("should", 6), SP,
                    W("be", 2), SP, W("structured,", 11), SP, W("professional,", 13), SP,
                    W("and", 3), SP, W("comply", 6), SP, W("with", 4), SP, W("CSR", 3), SP,
                    W("standards.", 10)>>,
                <<W("-", 1), SP, W("Use", 3), SP, W("only", 4), SP, W("information", 11), SP,
                    W("from", 4), SP, W("the", 3), SP, W("provided", 8), SP, W("context.", 8)>>,
                <<W("-", 1), SP, W("If", 2), SP, W("there", 5), SP, W("is", 2), SP,
                    W("insufficient", 12), SP, W("information", 11), SP, W("in", 2), SP,
                    W("the", 3), SP, W("context,", 8), SP, W("indicate", 8), SP, W("this", 4),
                    SP, W("in", 2), SP, W("the", 3), SP, W("appropriate", 11), SP,
                    W("places.", 7)>>,
                <<W("-", 1), SP, W("Write", 5), SP, W("in", 2), SP, W("English,", 8), SP,
                    W("using", 5), SP, W("medical", 7), SP, W("terminology.", 12)>>>>,
      phase |-> <<W("-", 1), SP, W("Study", 5), SP, W("phase:", 6), SP, Field("study.phase"),
          W(".", 1)>>,
      indication |-> <<W("-", 1), SP, W("Indication:", 11), SP, Field("study.indication"),
          W(".", 1)>>,
      sponsor |-> <<W("-", 1), SP, W("Sponsor:", 8), SP, Field("study.sponsor_name"), W(".", 1)>>,
      context_header |-> <<W("===", 3), SP, W("CONTEXT", 7), SP, W("FROM", 4), SP,
          W("SOURCE", 6), SP, W("DOCUMENTS", 9), SP, W("===", 3)>>,
      protocol |-> <<W("---", 3), SP, W("STUDY", 5), SP, W("PROTOCOL", 8), SP, W("---", 3)>>,
      sap |-> <<W("---", 3), SP, W("SAP", 3), SP, W("(Statistical", 12), SP, W("Analysis", 8),
          SP, W("Plan)", 5), SP, W("---", 3)>>,
      tlf |-> <<W("---", 3), SP, W("TLF", 3), SP, W("(Table,", 7), SP, W("Listing,", 8), SP,
          W("Figure)", 7), SP, W("-", 1), SP, W("Summary", 7), SP, W("Data", 4), SP,
          W("---", 3)>>,
      csr_prev |-> <<W("---", 3), SP, W("PREVIOUS", 8), SP, W("CSR", 3), SP, W("---", 3)>>,
      current_header |-> <<W("===", 3), SP, W("CURRENT", 7), SP, W("SECTION", 7), SP,
          W("TEXT", 4), SP, W("===", 3)>>,
      extra_header |-> <<W("===", 3), SP, W("ADDITIONAL", 10), SP, W("INSTRUCTIONS", 12), SP,
          W("===", 3)>>,
      task_header |-> <<W("===", 3), SP, W("TASK", 4), SP, W("===", 3)>>,
      task |-> <<W("Generate", 8), SP, W("CSR", 3), SP, W("section", 7), SP, W("text", 4), SP,
          W("based", 5), SP, W("on", 2), SP, W("the", 3), SP, W("provided", 8), SP,
          W("context.", 8)>>]]

\* dict.get that finds no key
FindsNoKey(d, k) == <<>>

\* dict.get(key, "")
GetOrEmpty(d, k) == IF k \in DOMAIN d THEN d[k] ELSE <<>>

\* the text of a nullable string column, "" for None
TextOrEmpty(x) == IF x = None THEN <<>> ELSE <<W(x, Len(x))>>

\* ai_prompt_builder.build_generate_section_prompt
build_generate_section_prompt(study, section, current_text, rag_context_by_source_type, user_prompt, language) ==
    LET text == PromptText[IF language = "ru" THEN "ru" ELSE "en"]
        kwargs == [k \in {"study.title", "study.code", "section.title", "section.code",
                          "study.phase", "study.indication", "study.sponsor_name"} |->
                      CASE k = "study.title" -> TextOrEmpty(study.title)
                        [] k = "study.code" -> TextOrEmpty(study.code)
                        [] k = "section.title" -> TextOrEmpty(section.title)
                        [] k = "section.code" -> TextOrEmpty(section.code)
                        [] k = "study.phase" -> TextOrEmpty(study.phase)
                        [] k = "study.indication" -> TextOrEmpty(study.indication)
                        [] k = "study.sponsor_name" -> TextOrEmpty(study.sponsor_name)]
        Optional(present, line) == IF present THEN <<Format(line, kwargs)>> ELSE <<>>
        Block(header, body) == IF body # <<>> THEN <<header, body, <<>>>> ELSE <<>>
        Section(header, body) == IF body.given /\ body.v # <<>>
                                 THEN <<header, <<>>, body.v, <<>>>> ELSE <<>>
        system_parts ==
            [i \in DOMAIN text.intro |-> Format(text.intro[i], kwargs)]
            \o Optional(Truthy(study.phase), text.phase)
            \o Optional(Truthy(study.indication), text.indication)
            \o Optional(Truthy(study.sponsor_name), text.sponsor)
            \o <<<<>>, text.context_header, <<>>>>
            \o Block(text.protocol, GetOrEmpty(rag_context_by_source_type, "protocol"))
            \o Block(text.sap, GetOrEmpty(rag_context_by_source_type, "sap"))
            \o Block(text.tlf, GetOrEmpty(rag_context_by_source_type, "tlf"))
            \o Block(text.csr_prev, GetOrEmpty(rag_context_by_source_type, "csr_prev"))
            \o Section(text.current_header, current_text)
            \o (IF user_prompt.given /\ user_prompt.v # <<>>
                THEN Section(text.extra_header, user_prompt)
                ELSE <<text.task_header, <<>>, text.task, <<>>>>)
    IN  Join(system_parts, <<NL>>)

(***************************************************************************)
(* The endpoints that run quality control and generate section text.       *)
(***************************************************************************)
MaxAiLogs == 1

\* the language run_qc_rules_for_document uses when the caller passes none
DefaultQcLanguage == "ru"

\* the language build_generate_section_prompt uses when the caller passes none
DefaultPromptLanguage == "ru"

\* study_access.verify_study_access: the status it raises, 200 when it returns the study
verify_study_access(study_id, user_id) ==
    IF study_id \notin DOMAIN studies THEN 404
    ELSE IF ~\E m \in members : m.study_id = study_id /\ m.user_id = user_id THEN 403
    ELSE 200

\* POST /qc/documents/{document_id}/run
RunQcEndpoint(document_id, caller) ==
    LET found == {d \in csrDocs : d.id = document_id}
        document == CHOOSE d \in found : TRUE
        rejected(status) ==
            /\ lastOp' = [op |-> "qc_endpoint", status |-> status, doc |-> document_id,
                          caller |-> caller]
            /\ UNCHANGED qcVars
    IN  /\ IF found = {} THEN rejected(404)
           ELSE IF verify_study_access(document.study_id, caller.user) # 200
                THEN rejected(verify_study_access(document.study_id, caller.user))
                ELSE /\ RunQcCall(document_id, document.study_id, DefaultQcLanguage,
                                  "endpoint", caller)
                     /\ UNCHANGED aiLogs
        /\ UNCHANGED <<backend, ragVars, docVars>>

\* the text of the latest version of a section, None when it has no version
CurrentText(section) ==
    IF section.versions = <<>> THEN NoArg
    ELSE Arg(section.versions[Len(section.versions)].text)

\* the rows the prompt template query can return first:
\* ORDER BY is_default DESC, version DESC
PromptTemplates(rows, section_code) ==
    LET candidates == {tpl \in rows : /\ tpl.type = "prompt"
                                      /\ tpl.section_code = section_code
                                      /\ tpl.language = "ru"
                                      /\ tpl.is_active}
        Before(a, b) == \/ a.is_default /\ ~b.is_default
                        \/ a.is_default = b.is_default /\ a.version > b.version
    IN  {tpl \in candidates : ~\E other \in candidates : Before(other, tpl)}

\* str(n) of a small integer
IntText(n) ==
    W(CASE n = 0 -> "0" [] n = 1 -> "1" [] n = 2 -> "2" [] n = 3 -> "3" [] n = 4 -> "4"
        [] n = 5 -> "5" [] n = 6 -> "6" [] n = 7 -> "7" [] n = 8 -> "8" [] OTHER -> "9", 1)

\* ai_client.generate_section_text_stub
generate_section_text_stub(study_id, section_id, prompt) ==
    [generated_text |->
        <<W("[STUB", 5), SP, W("AI", 2), SP, W("OUTPUT]", 7), SP, W("This", 4), SP, W("is", 2),
          SP, W("a", 1), SP, W("placeholder", 11), SP, W("CSR", 3), SP, W("section", 7), SP,
          W("for", 3), SP, W("study", 5), SP, IntText(study_id), W(",", 1), SP,
          W("section", 7), SP, IntText(section_id), W(".", 1), SP, W("Prompt:", 7), SP>>
            \o (IF prompt = <<>> THEN <<W("default", 7)>> ELSE prompt) \o <<W(".", 1)>>,
     model_name |-> "stub-model-v0"]

\* what the model behind ai_client.generate_section_text_real answers
RealOutput == [generated_text |-> <<W("Generated", 9), SP, W("text", 4)>>, model_name |-> "llm"]

\* the keys of template_context_vars, from the retrieved context
template_context_vars(rag_context_by_source_type) ==
    [k \in ContextKeys |-> PyStr(GetOrEmpty(rag_context_by_source_type, TypeOfContextKey(k)))]

\* the prompt the handler ends up with, the way it was built and the language used:
\* every outcome of the template query and of the second retrieval
EffectivePrompts(study_id, section, rag_context_by_source_type, user_prompt) ==
    LET found == PromptTemplates(templates, section.code)
    IN  IF found # {}
        THEN {[via |-> "template", language |-> prompt_template.language,
               prompt |-> render_template_string(
                              prompt_template.content,
                              DictUpdate(base_context.ctx,
                                         template_context_vars(rag_context_by_source_type))).text]
                : prompt_template \in found,
                  base_context \in build_template_context(study_id, NoArg,
                                                         DefaultContextLanguage)}
        ELSE {[via |-> "builder", language |-> DefaultPromptLanguage,
               prompt |-> build_generate_section_prompt(
                              studies[study_id], section, CurrentText(section),
                              rag_context_by_source_type, user_prompt, DefaultPromptLanguage)]}

AiModes == {"stub", "real"}

\* POST /ai/generate-section-text; ai_mode is the setting, fails says that the
\* call of the model raised (the stub never does)
GenerateSectionText(study_id, section_id, user_prompt, caller, ai_mode, fails) ==
    LET access == verify_study_access(study_id, caller.user)
        sections_found == {x \in csrSections : x.id = section_id}
        section == CHOOSE x \in sections_found : TRUE
        documents_found == {d \in csrDocs : d.id = section.document_id}
        document == CHOOSE d \in documents_found : TRUE
        rejected(status) ==
            /\ lastOp' = [op |-> "ai_generate", status |-> status, study |-> study_id,
                          section |-> section_id, caller |-> caller]
            /\ UNCHANGED aiLogs
    IN  /\ IF access # 200 THEN rejected(access)
           ELSE IF sections_found = {} THEN rejected(404)
           ELSE IF documents_found = {} THEN rejected(404)
           ELSE IF document.study_id # study_id THEN rejected(400)
           ELSE \E chunks_by_type \in retrieve_rag_chunks(ragChunks, sourceDocs, study_id,
                                                          NoArg, DefaultLimitPerSource, None) :
                  \E effective \in EffectivePrompts(study_id, section,
                                       build_rag_context_text(chunks_by_type), user_prompt) :
                      LET out == IF ai_mode = "real" THEN RealOutput
                                 ELSE generate_section_text_stub(study_id, section_id,
                                                                 effective.prompt)
                          raised == fails /\ ai_mode = "real"
                      IN  /\ Len(aiLogs) < MaxAiLogs
                          /\ aiLogs' = Append(aiLogs,
                                [study_id |-> study_id, section_id |-> section_id,
                                 prompt |-> effective.prompt,
                                 generated_text |-> IF raised THEN <<>> ELSE out.generated_text,
                                 model_name |-> IF raised THEN None ELSE out.model_name,
                                 mode |-> ai_mode, success |-> ~raised])
                          /\ lastOp' = [op |-> "ai_generate",
                                        status |-> IF raised THEN 500 ELSE 200,
                                        study |-> study_id, section |-> section_id,
                                        caller |-> caller, doc |-> document.id,
                                        via |-> effective.via, language |-> effective.language,
                                        prompt |-> effective.prompt,
                                        generated_text |-> IF raised THEN <<>>
                                                           ELSE out.generated_text]
        /\ UNCHANGED <<backend, ragVars, docVars, qcRules, qcIssues, issueSeq, now>>

(***************************************************************************)
(* The endpoint specification: documents in either language, callers with  *)
(* either interface language and header.                                   *)
(***************************************************************************)
CsrDocumentRow(id, study_id) == [id |-> id, study_id |-> study_id]

CsrSectionRow(id, document_id, code, title, versions) ==
    [id |-> id, document_id |-> document_id, code |-> code, title |-> title,
     versions |-> versions]

\* a prompt template for the EFFICACY section
PromptTemplate ==
    [TemplateRow(1, "prompt", "EFFICACY", "ru",
                 <<W("Study", 5), SP, LB, LB, W("study_code", 10), RB, RB, NL,
                   LB, LB, W("context_protocol", 16), RB, RB>>)
        EXCEPT !.is_default = FALSE]

InitEndpoints ==
    /\ backend = "postgresql"
    /\ InitSources
    /\ templates = {PromptTemplate}
    /\ \E language \in Languages :
          outputDocs = {OutputDocumentRow(1, 1, language), OutputDocumentRow(2, 2, "ru")}
    /\ sections = SectionRows(1, <<"SYNOPSIS", "EFFICACY", "SAFETY", "PK">>)
                     \cup SectionRows(2, <<"SYNOPSIS", "EFFICACY", "SAFETY">>)
    /\ csrDocs = {CsrDocumentRow(1, 1), CsrDocumentRow(2, 2)}
    /\ csrSections =
          {CsrSectionRow(1, 1, "SYNOPSIS", "Synopsis",
                         <<[id |-> 1, text |-> <<W("Draft", 5), SP, W("synopsis", 8)>>]>>),
           CsrSectionRow(2, 1, "EFFICACY", "Efficacy Results", <<>>),
           CsrSectionRow(3, 2, "SYNOPSIS", "Synopsis", <<>>)}
    /\ sectionVersions = {}
    /\ calls = NoCalls
    /\ qcRules = {}
    /\ qcIssues = {}
    /\ issueSeq = 0
    /\ aiLogs = <<>>
    /\ now = 0
    /\ lastOp = NoOp

\* the authenticated user and the Accept-Language header of a request
Callers == {[user |-> 1, accept |-> "ru"], [user |-> 2, accept |-> "en"]}

UserPrompts == {NoArg, Arg(<<W("Shorter", 7)>>)}

NextEndpoints ==
    \/ \E document_id \in 1..3, caller \in Callers : RunQcEndpoint(document_id, caller)
    \/ \E study_id \in 1..2, section_id \in 1..4, user_prompt \in UserPrompts,
          caller \in Callers, ai_mode \in AiModes :
            GenerateSectionText(study_id, section_id, user_prompt, caller, ai_mode,
                                ai_mode = "real")

SpecEndpoints == InitEndpoints /\ [][NextEndpoints]_vars

(***************************************************************************)
(* The chunking specification: chunk_text applied to the texts made of a   *)
(* few pieces, with small size limits.                                     *)
(***************************************************************************)
MaxTextPieces == 5

\* paragraph separators, line breaks, spaces and words of 2, 5 and 9 characters
TextPieces == {ParaSep, <<NL>>, <<SP>>, <<W("a", 2)>>, <<W("b", 5)>>, <<W("c", 9)>>}

\* the texts made of at most n pieces
RECURSIVE ChunkTextsOf(_)
ChunkTextsOf(n) ==
    IF n = 0 THEN {<<>>}
    ELSE ChunkTextsOf(n - 1) \cup {t \o p : t \in ChunkTextsOf(n - 1), p \in TextPieces}

MaxChunkSizes == {6, 12}
MinChunkSizes == {0, 4, 20}

\* a call of chunk_text that has been made and has not returned yet
InitChunk ==
    /\ backend = "postgresql"
    /\ InitSources
    /\ InitNoDocuments
    /\ \E text \in ChunkTextsOf(MaxTextPieces), max_chunk_size \in MaxChunkSizes,
          min_chunk_size \in MinChunkSizes :
            lastOp = [op |-> "chunk_call", text |-> text, max_chunk_size |-> max_chunk_size,
                      min_chunk_size |-> min_chunk_size]

\* chunk_text returns
ChunkText ==
    /\ lastOp.op = "chunk_call"
    /\ lastOp' = [op |-> "chunk", text |-> lastOp.text,
                  max_chunk_size |-> lastOp.max_chunk_size,
                  min_chunk_size |-> lastOp.min_chunk_size,
                  chunks |-> chunk_text(lastOp.text, lastOp.max_chunk_size,
                                        lastOp.min_chunk_size)]
    /\ UNCHANGED <<backend, ragVars, docVars, qcVars>>

NextChunk == ChunkText

SpecChunk == InitChunk /\ [][NextChunk]_vars

(***************************************************************************)
(* Section versions of output documents: create, apply a template, read    *)
(* the latest.                                                             *)
(***************************************************************************)
MaxVersions == 2

MaxStamp == 1

\* the parameters of verify_study_access, verify_study_management_access and
\* verify_study_editor_access
StudyAccessParameters == {"study_id", "user_id", "db"}

\* a call binds each keyword argument to a parameter of that name; Python raises
\* TypeError when the function has none
RaisesTypeError(parameters, keywords) == ~(keywords \subseteq parameters)

VersionsOf(section_id) == {v \in sectionVersions : v.section_id = section_id}

\* the first row of ORDER BY id DESC
LatestById(rows) == CHOOSE v \in rows : \A w \in rows : w.id <= v.id

\* the first row of ORDER BY created_at DESC, id DESC
LatestVersion(rows) ==
    CHOOSE v \in rows :
        \A w \in rows : \/ w.created_at < v.created_at
                        \/ w.created_at = v.created_at /\ w.id <= v.id

\* OutputSectionVersion(...) after db.add, db.commit and db.refresh; created_at is
\* datetime.utcnow() on insert
NewVersion(section_id, text, created_by, source, template_id, created_at) ==
    [id |-> SetMax(Ids(sectionVersions)) + 1, section_id |-> section_id, text |-> text,
     created_at |-> created_at, created_by |-> created_by, source |-> source,
     template_id |-> template_id]

\* GET /output/sections/{section_id}/versions/latest
GetLatestSectionVersion(section_id) ==
    /\ lastOp' =
          IF ~\E x \in sections : x.id = section_id
          THEN [op |-> "latest_version", status |-> 404, section |-> section_id, ret |-> None]
          ELSE IF VersionsOf(section_id) = {}
          THEN [op |-> "latest_version", status |-> 404, section |-> section_id, ret |-> None]
          ELSE [op |-> "latest_version", status |-> 200, section |-> section_id,
                ret |-> LatestVersion(VersionsOf(section_id))]
    /\ UNCHANGED <<backend, ragVars, docVars, qcVars>>

\* POST /output/sections/{section_id}/versions; created_at is what the wall clock
\* reads at the insert, and the wall clock can repeat a value or step back
CreateSectionVersion(section_id, text, created_by, created_at) ==
    /\ IF ~\E x \in sections : x.id = section_id
       THEN /\ lastOp' = [op |-> "create_version", status |-> 404, section |-> section_id,
                          ret |-> None]
            /\ UNCHANGED sectionVersions
       ELSE LET version == NewVersion(section_id, text, created_by, "human", None, created_at)
            IN  /\ Cardinality(sectionVersions) < MaxVersions
                /\ sectionVersions' = sectionVersions \cup {version}
                /\ lastOp' = [op |-> "create_version", status |-> 201,
                              section |-> section_id, ret |-> version]
    /\ UNCHANGED <<backend, ragVars, templates, users, members, outputDocs, sections,
                   csrDocs, csrSections, calls, qcVars>>

\* POST /output/sections/{section_id}/apply-template. The first statement calls
\* verify_study_access(body.study_id, current_user.id, db, language=request_language);
\* an exception that is no HTTPException is answered with 500 by
\* main.global_exception_handler. outputDocs rows carry the language of the document
\* they are linked to.
ApplyTemplateToSection(section_id, study_id, template_id, extra_context, caller, created_at) ==
    LET access == verify_study_access(study_id, caller.user)
        sections_found == {x \in sections : x.id = section_id}
        section == CHOOSE x \in sections_found : TRUE
        documents_found == {d \in outputDocs : d.id = section.document_id}
        output_document == CHOOSE d \in documents_found : TRUE
        content_language ==
            resolve_content_language(Arg([language |-> output_document.language,
                                          ui_language |-> None]),
                                     Arg([language |-> None,
                                          ui_language |-> users[caller.user].ui_language]),
                                     caller.accept)
        templates_found == {t \in templates : t.id = template_id}
        template == CHOOSE t \in templates_found : TRUE
        rejected(status) ==
            /\ lastOp' = [op |-> "apply_template", status |-> status, section |-> section_id,
                          study |-> study_id, template |-> template_id, caller |-> caller,
                          ret |-> None]
            /\ UNCHANGED sectionVersions
    IN  /\ IF RaisesTypeError(StudyAccessParameters, {"language"}) THEN rejected(500)
           ELSE IF access # 200 THEN rejected(access)
           ELSE IF sections_found = {} THEN rejected(404)
           ELSE IF documents_found = {} THEN rejected(404)
           ELSE IF output_document.study_id # study_id THEN rejected(400)
           ELSE IF templates_found = {} THEN rejected(404)
           ELSE \E c \in build_template_context(study_id, extra_context, content_language) :
                   LET rendered == render_template_string(template.content, c.ctx)
                       version == NewVersion(section_id, rendered.text, caller.user,
                                             "template", template.id, created_at)
                   IN  /\ Cardinality(sectionVersions) < MaxVersions
                       /\ sectionVersions' = sectionVersions \cup {version}
                       /\ lastOp' = [op |-> "apply_template", status |-> 201,
                                     section |-> section_id, study |-> study_id,
                                     template |-> template_id, caller |-> caller,
                                     language |-> content_language, ret |-> version]
        /\ UNCHANGED <<backend, ragVars, templates, users, members, outputDocs, sections,
                       csrDocs, csrSections, calls, qcVars>>

(***************************************************************************)
(* The section version specification: versions are created by hand, by     *)
(* template and asked for, and section text is generated, in any order.    *)
(***************************************************************************)
SectionTemplate ==
    TemplateRow(2, "section_text", "SYNOPSIS", "en",
                <<W("Study", 5), SP, LB, LB, W("study_code", 10), RB, RB>>)

VersionTexts == {<<W("Final", 5), SP, W("text", 4)>>}

InitVersions ==
    /\ backend = "postgresql"
    /\ InitSources
    /\ templates = {PromptTemplate, SectionTemplate}
    /\ outputDocs = {OutputDocumentRow(1, 1, "en"), OutputDocumentRow(2, 2, "ru")}
    /\ sections = SectionRows(1, <<"SYNOPSIS", "EFFICACY">>) \cup SectionRows(2, <<"SYNOPSIS">>)
    /\ csrDocs = {CsrDocumentRow(1, 1), CsrDocumentRow(2, 2)}
    /\ csrSections =
          {CsrSectionRow(1, 1, "SYNOPSIS", "Synopsis",
                         <<[id |-> 1, text |-> <<W("Draft", 5), SP, W("synopsis", 8)>>]>>),
           CsrSectionRow(2, 1, "EFFICACY", "Efficacy Results", <<>>)}
    /\ sectionVersions = {}
    /\ calls = NoCalls
    /\ qcRules = {}
    /\ qcIssues = {}
    /\ issueSeq = 0
    /\ aiLogs = <<>>
    /\ now = 0
    /\ lastOp = NoOp

NextVersions ==
    \/ \E section_id \in {11, 12, 21, 99} : GetLatestSectionVersion(section_id)
    \/ \E section_id \in {11, 12, 99}, text \in VersionTexts, created_at \in 0..MaxStamp :
          CreateSectionVersion(section_id, text, "editor", created_at)
    \/ \E section_id \in {11, 21}, study_id \in 1..2, template_id \in {2},
          caller \in Callers, created_at \in 0..MaxStamp :
            ApplyTemplateToSection(section_id, study_id, template_id, NoArg, caller,
                                   created_at)
    \/ \E section_id \in 1..2, caller \in {c \in Callers : c.user = 1} :
          GenerateSectionText(1, section_id, NoArg, caller, "stub", FALSE)

SpecVersions == InitVersions /\ [][NextVersions]_vars

(***************************************************************************)
(* Soft delete, permanent delete and restore of a source document.         *)
(***************************************************************************)
RoleOf(study_id, user_id) ==
    (CHOOSE x \in members : x.study_id = study_id /\ x.user_id = user_id).role

\* study_access.verify_study_editor_access: the status it raises, 200 when it
\* returns the study
verify_study_editor_access(study_id, user_id) ==
    IF study_id \notin DOMAIN studies THEN 404
    ELSE IF ~\E x \in members : x.study_id = study_id /\ x.user_id = user_id THEN 403
    ELSE IF RoleOf(study_id, user_id) \notin {"owner", "editor"} THEN 403
    ELSE 200

\* study_access.verify_study_management_access
verify_study_management_access(study_id, user_id) ==
    IF study_id \notin DOMAIN studies THEN 404
    ELSE IF ~\E x \in members : /\ x.study_id = study_id
                               /\ x.user_id = user_id
                               /\ x.role = "owner" THEN 403
    ELSE 200

\* sources._cleanup_rag_chunks_for_document: the rows left
CleanupRagChunksForDocument(rows, d) == rows \ ChunksOf(rows, d)

\* sources._determine_is_current_on_restore
DetermineIsCurrentOnRestore(rows, study_id, doc_type, language, restored_doc_id) ==
    Cardinality({r \in rows : /\ SameSlot(r, study_id, doc_type, language)
                              /\ r.id # restored_doc_id
                              /\ r.status = "active"}) = 0

\* what a lifecycle handler is recorded to have answered: the row (none or one) and
\* the chunks of the document as they were before the call
Answered(op, status, d, caller, ret) ==
    [op |-> op, status |-> status, doc |-> d, caller |-> caller,
     before |-> {r \in sourceDocs : r.id = d},
     chunks_before |-> ChunksOf(ragChunks, d), ret |-> ret]

\* DELETE /sources/{source_document_id}. The access check is called with
\* language=language; an exception that is no HTTPException is answered with 500.
DeleteSourceDocument(d, caller) ==
    LET source_doc == SourceRow(d)
        access == verify_study_editor_access(source_doc.study_id, caller.user)
        refused(status) ==
            /\ lastOp' = Answered("soft_delete", status, d, caller, None)
            /\ UNCHANGED <<sourceDocs, ragChunks>>
    IN  /\ IF d \notin Ids(sourceDocs) THEN refused(404)
           ELSE IF RaisesTypeError(StudyAccessParameters, {"language"}) THEN refused(500)
           ELSE IF access # 200 THEN refused(access)
           ELSE /\ sourceDocs' =
                      {IF r.id = d
                       THEN [r EXCEPT !.status = "archived", !.is_current = FALSE,
                                      !.is_rag_enabled = FALSE,
                                      !.index_status = "not_indexed"]
                       ELSE r : r \in sourceDocs}
                /\ ragChunks' = CleanupRagChunksForDocument(ragChunks, d)
                /\ lastOp' = Answered("soft_delete", 204, d, caller, None)
        /\ UNCHANGED <<backend, studies, files, docSeq, chunkSeq, bgTasks, docVars, qcVars>>

\* DELETE /sources/{source_document_id}/permanent; storage.delete_file removes the
\* file when it is there
PermanentDeleteSourceDocument(d, caller) ==
    LET source_doc == SourceRow(d)
        access == verify_study_management_access(source_doc.study_id, caller.user)
        refused(status) ==
            /\ lastOp' = Answered("permanent_delete", status, d, caller, None)
            /\ UNCHANGED <<sourceDocs, ragChunks, files>>
    IN  /\ IF d \notin Ids(sourceDocs) THEN refused(404)
           ELSE IF RaisesTypeError(StudyAccessParameters, {"language"}) THEN refused(500)
           ELSE IF access # 200 THEN refused(access)
           ELSE /\ ragChunks' = CleanupRagChunksForDocument(ragChunks, d)
                /\ sourceDocs' = sourceDocs \ {source_doc}
                /\ files' = [files EXCEPT ![StoragePath(source_doc.study_id,
                                                        source_doc.file_name)] = Missing]
                /\ lastOp' = Answered("permanent_delete", 204, d, caller, None)
        /\ UNCHANGED <<backend, studies, docSeq, chunkSeq, bgTasks, docVars, qcVars>>

\* what ingest_source_document_to_rag(db, d) leaves when called on the rows docs
IngestEffect(docs, d) ==
    LET source == CHOOSE r \in docs : r.id = d
        ext == extract_text_from_file(files, StoragePath(source.study_id, source.file_name))
        chunks == chunk_text(ext.text, DefaultMaxChunkSize, DefaultMinChunkSize)
        kept == ragChunks \ IngestDeletes(ragChunks, d)
        base == IdBase(backend, Ids(kept), chunkSeq)
    IN  IF ext.raised
        THEN [docs |-> SetIndexStatus(docs, d, "error"), chunks |-> ragChunks,
              seq |-> chunkSeq]
        ELSE [docs |-> SetIndexStatus(docs, d, "indexed"),
              chunks |-> kept \cup NewChunkRows(source, chunks, base),
              seq |-> NextSeq(backend, chunkSeq, Len(chunks))]

\* POST /sources/{source_document_id}/restore; the status of the document is
\* looked at before the access check, and ingestion runs before the answer
RestoreSourceDocument(d, caller) ==
    LET source_doc == SourceRow(d)
        access == verify_study_editor_access(source_doc.study_id, caller.user)
        should_be_current ==
            DetermineIsCurrentOnRestore(sourceDocs, source_doc.study_id, source_doc.type,
                                        source_doc.language, source_doc.id)
        restored ==
            {IF r.id = d
             THEN [r EXCEPT !.status = "active", !.is_rag_enabled = TRUE,
                            !.index_status = "not_indexed",
                            !.is_current = should_be_current]
             ELSE r : r \in sourceDocs}
        ingested == IngestEffect(restored, d)
        refused(status) ==
            /\ lastOp' = Answered("restore", status, d, caller, None)
            /\ UNCHANGED <<sourceDocs, ragChunks, chunkSeq>>
    IN  /\ IF d \notin Ids(sourceDocs) THEN refused(404)
           ELSE IF source_doc.status # "archived" THEN refused(400)
           ELSE IF RaisesTypeError(StudyAccessParameters, {"language"}) THEN refused(500)
           ELSE IF access # 200 THEN refused(access)
           ELSE /\ SetMax(Ids(ingested.chunks)) <= MaxChunkId
                /\ sourceDocs' = ingested.docs
                /\ ragChunks' = ingested.chunks
                /\ chunkSeq' = ingested.seq
                /\ lastOp' = Answered("restore", 200, d, caller,
                                      CHOOSE r \in ingested.docs : r.id = d)
        /\ UNCHANGED <<backend, studies, files, docSeq, bgTasks, docVars, qcVars>>

(***************************************************************************)
(* The source document specification: documents are uploaded, indexed,     *)
(* deleted and restored by callers of every role. The table can hold an    *)
(* archived document from the start.                                       *)
(***************************************************************************)
ArchivedName == FileName("archived_protocol", ".pdf")

\* an archived document of study 1
ArchivedSourceDocument ==
    [id |-> 1, study_id |-> 1, type |-> "protocol", file_name |-> ArchivedName,
     language |-> "ru", status |-> "archived", is_current |-> FALSE,
     is_rag_enabled |-> FALSE, index_status |-> "not_indexed"]

InitLifecycle ==
    /\ backend \in Backends
    /\ studies = StudyRows
    /\ users = UserRows
    /\ members = MemberRows
    /\ \/ sourceDocs = {} /\ docSeq = 0
       \/ sourceDocs = {ArchivedSourceDocument} /\ docSeq = 1
    /\ files = [p \in Paths \cup {StoragePath(1, ArchivedName)} |-> Missing]
    /\ ragChunks = {}
    /\ chunkSeq = 0
    /\ bgTasks = {}
    /\ InitNoDocuments
    /\ lastOp = NoOp

LifecycleUploads ==
    \/ UploadSourceDocument(1, "protocol", "ru", TxtName, Readable(TextTwo))
    \/ UploadSourceDocument(1, "protocol", "ru", PdfName, Missing)
    \/ UploadSourceDocument(2, "protocol", "ru", TxtName, Readable(TextOne))

NextLifecycle ==
    \/ LifecycleUploads
    \/ \E d \in bgTasks : RunIngestionBackground(d)
    \/ \E d \in 1..MaxDocs + 1, caller \in Callers : DeleteSourceDocument(d, caller)
    \/ \E d \in 1..MaxDocs + 1, caller \in Callers : PermanentDeleteSourceDocument(d, caller)
    \/ \E d \in 1..MaxDocs + 1, caller \in Callers : RestoreSourceDocument(d, caller)

SpecLifecycle == InitLifecycle /\ [][NextLifecycle]_vars

(***************************************************************************)
(* Studies and their members.                                              *)
(***************************************************************************)
MaxStudies == 2

\* services.study_members.get_user_study_role; None for a user who is no member
get_user_study_role(user_id, study_id) ==
    IF \E x \in members : x.study_id = study_id /\ x.user_id = user_id
    THEN RoleOf(study_id, user_id) ELSE None

\* a count that always finds another owner
AlwaysAnotherOwner(study_id, member_id) == 1

\* delete_study_member: the owners of the study other than member_id
OtherOwnersCount(study_id, member_id) ==
    Cardinality({x \in members : /\ x.study_id = study_id
                                 /\ x.role = "owner"
                                 /\ x.user_id # member_id})

\* POST /studies by current_user
CreateStudy(code, current_user) ==
    /\ IF \E s \in DOMAIN studies : studies[s].code = code
       THEN /\ lastOp' = [op |-> "create_study", status |-> 400, caller |-> current_user]
            /\ UNCHANGED <<studies, members>>
       ELSE LET id == SetMax(DOMAIN studies) + 1
                study == [id |-> id, code |-> code, title |-> "Study", phase |-> None,
                          indication |-> None, sponsor_name |-> None,
                          owner_id |-> current_user]
            IN  /\ id <= MaxStudies
                /\ studies' = [s \in DOMAIN studies \cup {id} |->
                                  IF s = id THEN study ELSE studies[s]]
                /\ members' = members \cup {[study_id |-> id, user_id |-> current_user,
                                             role |-> "owner"]}
                /\ lastOp' = [op |-> "create_study", status |-> 200,
                              caller |-> current_user, study |-> id]
    /\ UNCHANGED <<backend, sourceDocs, files, ragChunks, docSeq, chunkSeq, bgTasks,
                   templates, users, outputDocs, sections, csrDocs, csrSections,
                   sectionVersions, calls, qcVars>>

\* POST /studies/{study_id}/members/{user_id} with the role of the payload
AddStudyMemberByUserId(study_id, user_id, role, current_user) ==
    LET answered(status) ==
            lastOp' = [op |-> "add_member", status |-> status, study |-> study_id,
                       user |-> user_id, role |-> role, caller |-> current_user]
    IN  /\ IF study_id \notin DOMAIN studies THEN answered(404) /\ UNCHANGED members
           ELSE IF user_id \notin DOMAIN users THEN answered(404) /\ UNCHANGED members
           ELSE IF get_user_study_role(current_user, study_id) # "owner"
           THEN answered(403) /\ UNCHANGED members
           ELSE IF \E x \in members : x.study_id = study_id /\ x.user_id = user_id
           THEN answered(400) /\ UNCHANGED members
           ELSE IF role = "owner"
                   /\ \E x \in members : x.study_id = study_id /\ x.role = "owner"
           THEN answered(400) /\ UNCHANGED members
           ELSE /\ members' = members \cup {[study_id |-> study_id, user_id |-> user_id,
                                             role |-> role]}
                /\ answered(201)
        /\ UNCHANGED <<backend, ragVars, templates, users, outputDocs, sections, csrDocs,
                       csrSections, sectionVersions, calls, qcVars>>

\* DELETE /studies/{study_id}/members/{member_id}; member_id is matched with the
\* user_id of the membership
DeleteStudyMember(study_id, member_id, current_user) ==
    LET found == {x \in members : x.user_id = member_id /\ x.study_id = study_id}
        member == CHOOSE x \in found : TRUE
        answered(status) ==
            lastOp' = [op |-> "delete_member", status |-> status, study |-> study_id,
                       member |-> member_id, caller |-> current_user]
    IN  /\ IF found = {} THEN answered(404) /\ UNCHANGED members
           ELSE IF get_user_study_role(current_user, study_id) # "owner"
           THEN answered(403) /\ UNCHANGED members
           ELSE IF /\ member.role = "owner"
                   /\ member.user_id = current_user
                   /\ OtherOwnersCount(study_id, member_id) = 0
           THEN answered(400) /\ UNCHANGED members
           ELSE /\ members' = members \ {member}
                /\ answered(204)
        /\ UNCHANGED <<backend, ragVars, templates, users, outputDocs, sections, csrDocs,
                       csrSections, sectionVersions, calls, qcVars>>

(***************************************************************************)
(* The member specification: two users create studies, add and remove      *)
(* members.                                                                *)
(***************************************************************************)
MemberUsers == [id \in 1..2 |-> [id |-> id, ui_language |-> "en"]]

StudyCodes == {"S-001", "S-002", "S-003"}

Roles == {"owner", "editor", "viewer"}

InitMembers ==
    /\ backend = "postgresql"
    /\ studies = <<>>
    /\ users = MemberUsers
    /\ members = {}
    /\ sourceDocs = {}
    /\ files = [p \in Paths |-> Missing]
    /\ ragChunks = {}
    /\ docSeq = 0
    /\ chunkSeq = 0
    /\ bgTasks = {}
    /\ InitNoDocuments
    /\ lastOp = NoOp

NextMembers ==
    \/ \E code \in StudyCodes, current_user \in DOMAIN users : CreateStudy(code, current_user)
    \/ \E study_id \in 1..MaxStudies, user_id \in 1..3, role \in Roles,
          current_user \in DOMAIN users :
            AddStudyMemberByUserId(study_id, user_id, role, current_user)
    \/ \E study_id \in 1..MaxStudies, member_id \in 1..3, current_user \in DOMAIN users :
          DeleteStudyMember(study_id, member_id, current_user)

SpecMembers == InitMembers /\ [][NextMembers]_vars

(***************************************************************************)
(* The request language. A header is a sequence of characters.             *)
(***************************************************************************)
\* a header handled without regard to its case
KeepCase(c) == c

\* str.lower, one character
LowerChar(c) ==
    CASE c = "R" -> "r"
      [] c = "U" -> "u"
      [] c = "E" -> "e"
      [] c = "N" -> "n"
      [] OTHER -> c

\* sub in s, for sequences of characters
Contains(s, sub) ==
    \E i \in 1..(Len(s) - Len(sub) + 1) : SubSeq(s, i, i + Len(sub) - 1) = sub

\* deps.language.get_request_language(request, user); user is None or a user,
\* header is what request.headers holds under Accept-Language, if anything
get_request_language(header, user) ==
    LET default_language == "en"
        accept_language == IF header.given THEN header.v ELSE <<>>
        accept_language_lower ==
            [i \in 1..Len(accept_language) |-> LowerChar(accept_language[i])]
    IN  IF user.given /\ Truthy(user.v.ui_language) /\ user.v.ui_language \in {"ru", "en"}
        THEN user.v.ui_language
        ELSE IF Contains(accept_language_lower, <<"r", "u">>) THEN "ru"
        ELSE IF Contains(accept_language_lower, <<"e", "n">>) THEN "en"
        ELSE default_language

(***************************************************************************)
(* The request language specification: the dependency called with every    *)
(* kind of user and every short header.                                    *)
(***************************************************************************)
MaxHeaderLen == 3

HeaderChars == {"r", "u", "e", "n", "R", "U", "E", "-"}

\* the headers of at most n characters
RECURSIVE HeadersOf(_)
HeadersOf(n) ==
    IF n = 0 THEN {<<>>}
    ELSE HeadersOf(n - 1) \cup {Append(h, c) : h \in HeadersOf(n - 1), c \in HeaderChars}

HeaderArgs == {NoArg} \cup {Arg(h) : h \in HeadersOf(MaxHeaderLen)}

InitRequestLang ==
    /\ backend = "postgresql"
    /\ InitSources
    /\ InitNoDocuments
    /\ \E header \in HeaderArgs, user \in UserArgs :
          lastOp = [op |-> "request_language_call", header |-> header, user |-> user]

GetRequestLanguage ==
    /\ lastOp.op = "request_language_call"
    /\ lastOp' = [op |-> "request_language", header |-> lastOp.header, user |-> lastOp.user,
                  ret |-> get_request_language(lastOp.header, lastOp.user)]
    /\ UNCHANGED <<backend, ragVars, docVars, qcVars>>

NextRequestLang == GetRequestLanguage

SpecRequestLang == InitRequestLang /\ [][NextRequestLang]_vars

(***************************************************************************)
(* Ingestion step by step. Each call of ingest_source_document_to_rag has  *)
(* its own session and transaction: it loads the document, extracts and    *)
(* chunks, runs the DELETE statement, and flushes its inserts and the      *)
(* index_status at commit. PostgreSQL runs transactions READ COMMITTED: a   *)
(* statement sees what was committed when it started, and waits for the    *)
(* transaction that holds a row it wants to delete. SQLite lets one         *)
(* transaction write at a time; another gets "database is locked".         *)
(***************************************************************************)
CallIds == {1, 2}

IdleCall ==
    [pc |-> "idle", doc |-> 0, chunks |-> <<>>, seen |-> {}, deleted |-> {},
     raised |-> FALSE]

\* call q holds the write lock of SQLite
Writing(q) == calls[q].pc \in {"deleting", "deleted"}

OthersWriting(p) == \E q \in CallIds \ {p} : Writing(q)

\* a DELETE that also sees the rows of transactions not yet committed: with one
\* table of committed rows that is the same set
SeenByDelete(rows, d) == Ids(ChunksOf(rows, d))

\* rag_ingest lines 20-34: load the document, extract the text, chunk it
StepIngestBegin(p, d) ==
    /\ calls[p].pc = "idle"
    /\ IF d \notin Ids(sourceDocs)
       THEN calls' = [calls EXCEPT ![p] = [IdleCall EXCEPT !.pc = "done", !.doc = d,
                                                          !.raised = TRUE]]
       ELSE LET source == SourceRow(d)
                ext == extract_text_from_file(files,
                           StoragePath(source.study_id, source.file_name))
            IN  IF ext.raised
                THEN calls' = [calls EXCEPT ![p] = [IdleCall EXCEPT !.pc = "failed",
                                                                   !.doc = d]]
                ELSE calls' = [calls EXCEPT ![p] =
                                  [IdleCall EXCEPT !.pc = "chunked", !.doc = d,
                                      !.chunks = chunk_text(ext.text, DefaultMaxChunkSize,
                                                            DefaultMinChunkSize)]]
    /\ UNCHANGED <<backend, ragVars, templates, users, members, outputDocs, sections,
                   csrDocs, csrSections, sectionVersions, qcVars, lastOp>>

\* line 37, the DELETE statement starts: it sees the committed chunks of the document
StepIngestDeleteStart(p) ==
    /\ calls[p].pc = "chunked"
    /\ backend = "sqlite" => ~OthersWriting(p)
    /\ calls' = [calls EXCEPT ![p].pc = "deleting",
                              ![p].seen = SeenByDelete(ragChunks, calls[p].doc)]
    /\ UNCHANGED <<backend, ragVars, templates, users, members, outputDocs, sections,
                   csrDocs, csrSections, sectionVersions, qcVars, lastOp>>

\* line 37, the DELETE statement ends: it has waited for the transactions that
\* deleted rows it saw, and deletes those of the rows it saw that are still there
StepIngestDeleteEnd(p) ==
    /\ calls[p].pc = "deleting"
    /\ \A q \in CallIds \ {p} :
          calls[q].pc = "deleted" => calls[q].deleted \cap calls[p].seen = {}
    /\ calls' = [calls EXCEPT ![p].pc = "deleted",
                              ![p].deleted = calls[p].seen \cap Ids(ragChunks)]
    /\ UNCHANGED <<backend, ragVars, templates, users, members, outputDocs, sections,
                   csrDocs, csrSections, sectionVersions, qcVars, lastOp>>

\* line 37 under SQLite while another call writes: the statement gives up with
\* "database is locked" and the call goes on in its except branch
StepIngestBusy(p) ==
    /\ calls[p].pc = "chunked"
    /\ backend = "sqlite"
    /\ OthersWriting(p)
    /\ calls' = [calls EXCEPT ![p].pc = "failed"]
    /\ UNCHANGED <<backend, ragVars, templates, users, members, outputDocs, sections,
                   csrDocs, csrSections, sectionVersions, qcVars, lastOp>>

\* lines 58-62: index_status 'error' is committed and the exception raised again;
\* under SQLite that commit fails too while another call writes
StepIngestFail(p) ==
    /\ calls[p].pc = "failed"
    /\ calls' = [calls EXCEPT ![p].pc = "done", ![p].raised = TRUE]
    /\ sourceDocs' = IF backend = "sqlite" /\ OthersWriting(p) THEN sourceDocs
                     ELSE SetIndexStatus(sourceDocs, calls[p].doc, "error")
    /\ UNCHANGED <<backend, studies, files, ragChunks, docSeq, chunkSeq, bgTasks, templates,
                   users, members, outputDocs, sections, csrDocs, csrSections,
                   sectionVersions, qcVars, lastOp>>

\* lines 39-57: the chunks are inserted and index_status 'indexed' is set, all
\* flushed and committed together with the DELETE
StepIngestCommit(p) ==
    /\ calls[p].pc = "deleted"
    /\ LET d == calls[p].doc
           kept == {c \in ragChunks : c.id \notin calls[p].deleted}
           base == IdBase(backend, Ids(kept), chunkSeq)
           written == NewChunkRows(SourceRow(d), calls[p].chunks, base)
       IN  /\ base + Len(calls[p].chunks) <= MaxChunkId
           /\ ragChunks' = kept \cup written
           /\ chunkSeq' = NextSeq(backend, chunkSeq, Len(calls[p].chunks))
           /\ sourceDocs' = SetIndexStatus(sourceDocs, d, "indexed")
           /\ lastOp' = [op |-> "ingest_commit", call |-> p, doc |-> d, written |-> written]
    /\ calls' = [calls EXCEPT ![p].pc = "done"]
    /\ UNCHANGED <<backend, studies, files, docSeq, bgTasks, templates, users, members,
                   outputDocs, sections, csrDocs, csrSections, sectionVersions, qcVars>>

(***************************************************************************)
(* The ingestion race specification: one uploaded document, indexed before *)
(* or not, and two ingest calls for it that run at the same time.          *)
(***************************************************************************)
RaceDocument ==
    [id |-> 1, study_id |-> 1, type |-> "protocol", file_name |-> TxtName,
     language |-> "ru", status |-> "active", is_current |-> TRUE,
     is_rag_enabled |-> TRUE, index_status |-> "not_indexed"]

InitIngestRace ==
    /\ backend \in Backends
    /\ studies = StudyRows
    /\ users = UserRows
    /\ members = MemberRows
    /\ \E content \in {Readable(TextOne), Readable(TextTwo), Corrupt(TextOne)},
          indexed \in BOOLEAN :
          LET chunks == chunk_text(content.text, DefaultMaxChunkSize, DefaultMinChunkSize)
          IN  /\ files = [p \in Paths |-> IF p = StoragePath(1, TxtName) THEN content
                                          ELSE Missing]
              /\ IF indexed /\ content.kind = "ok"
                 THEN /\ sourceDocs = {[RaceDocument EXCEPT !.index_status = "indexed"]}
                      /\ ragChunks = NewChunkRows(RaceDocument, chunks, 0)
                      /\ chunkSeq = Len(chunks)
                 ELSE /\ sourceDocs = {RaceDocument}
                      /\ ragChunks = {}
                      /\ chunkSeq = 0
    /\ docSeq = 1
    /\ bgTasks = {}
    /\ templates = {}
    /\ outputDocs = {}
    /\ sections = {}
    /\ csrDocs = {}
    /\ csrSections = {}
    /\ sectionVersions = {}
    /\ calls = [p \in CallIds |-> IdleCall]
    /\ qcRules = {}
    /\ qcIssues = {}
    /\ issueSeq = 0
    /\ aiLogs = <<>>
    /\ now = 0
    /\ lastOp = NoOp

NextIngestRace ==
    \E p \in CallIds :
        \/ StepIngestBegin(p, 1)
        \/ StepIngestDeleteStart(p)
        \/ StepIngestDeleteEnd(p)
        \/ StepIngestBusy(p)
        \/ StepIngestFail(p)
        \/ StepIngestCommit(p)

SpecIngestRace == InitIngestRace /\ [][NextIngestRace]_vars

(***************************************************************************)
(* check_required_sections step by step, in the same way: the DELETE of    *)
(* the open issues is a statement of its own, the new issues are flushed   *)
(* at commit.                                                              *)
(***************************************************************************)
IdleQcCall ==
    [pc |-> "idle", doc |-> 0, study |-> 0, language |-> "", missing |-> {}, seen |-> {},
     deleted |-> {}, written |-> {}, raised |-> FALSE]

\* a DELETE that sees no issue
SeesNoIssue(issues, document_id, rule_id) == {}

\* the rows the DELETE of lines 77-81 sees when it starts
QcSeenByDelete(issues, document_id, rule_id) ==
    Ids(OpenIssuesOf(issues, document_id, rule_id))

\* qc_rules lines 46-74: the rule, the configuration, the document, its sections
StepQcBegin(p, document_id, study_id, language) ==
    LET rule == get_or_create_required_sections_rule(qcRules)
        rule_config == get_qc_rule_config(language)
        checked == /\ rule.is_active
                   /\ rule_config.enabled
                   /\ \E d \in outputDocs : d.id = document_id
        existing_codes == {sec.code : sec \in {x \in sections : x.document_id = document_id}}
        required_codes == {sec.code : sec \in Range(DEFAULT_CSR_SECTIONS)}
    IN  /\ calls[p].pc = "idle"
        /\ rule \in qcRules
        /\ calls' = [calls EXCEPT ![p] =
                        [IdleQcCall EXCEPT !.pc = IF checked THEN "checked" ELSE "done",
                                           !.doc = document_id, !.study = study_id,
                                           !.language = language,
                                           !.missing = IF checked
                                                       THEN MissingCodes(required_codes,
                                                                         existing_codes)
                                                       ELSE {}]]
        /\ UNCHANGED <<backend, ragVars, templates, users, members, outputDocs, sections,
                       csrDocs, csrSections, sectionVersions, qcVars, lastOp>>

\* lines 77-81, the DELETE statement starts
StepQcDeleteStart(p) ==
    /\ calls[p].pc = "checked"
    /\ backend = "sqlite" => ~OthersWriting(p)
    /\ calls' = [calls EXCEPT ![p].pc = "deleting",
                              ![p].seen = QcSeenByDelete(qcIssues, calls[p].doc,
                                              get_or_create_required_sections_rule(qcRules).id)]
    /\ UNCHANGED <<backend, ragVars, templates, users, members, outputDocs, sections,
                   csrDocs, csrSections, sectionVersions, qcVars, lastOp>>

\* lines 77-81, the DELETE statement ends
StepQcDeleteEnd(p) ==
    /\ calls[p].pc = "deleting"
    /\ \A q \in CallIds \ {p} :
          calls[q].pc = "deleted" => calls[q].deleted \cap calls[p].seen = {}
    /\ calls' = [calls EXCEPT ![p].pc = "deleted",
                              ![p].deleted = calls[p].seen \cap Ids(qcIssues)]
    /\ UNCHANGED <<backend, ragVars, templates, users, members, outputDocs, sections,
                   csrDocs, csrSections, sectionVersions, qcVars, lastOp>>

\* lines 77-81 under SQLite while another call writes: "database is locked" is raised
\* to the caller
StepQcBusy(p) ==
    /\ calls[p].pc = "checked"
    /\ backend = "sqlite"
    /\ OthersWriting(p)
    /\ calls' = [calls EXCEPT ![p].pc = "done", ![p].raised = TRUE]
    /\ UNCHANGED <<backend, ragVars, templates, users, members, outputDocs, sections,
                   csrDocs, csrSections, sectionVersions, qcVars, lastOp>>

\* lines 83-113: one issue per missing code, flushed and committed with the DELETE
StepQcCommit(p) ==
    /\ calls[p].pc = "deleted"
    /\ now < MaxClock
    /\ LET rule == get_or_create_required_sections_rule(qcRules)
           kept == {i \in qcIssues : i.id \notin calls[p].deleted}
           base == IdBase(backend, Ids(kept), issueSeq)
       IN  \E order \in Orderings(calls[p].missing) :
              LET issues == NewIssueRows(order, base, calls[p].doc, calls[p].study, rule,
                                         get_qc_rule_config(calls[p].language).severity,
                                         calls[p].language, now + 1)
              IN  /\ qcIssues' = kept \cup issues
                  /\ calls' = [calls EXCEPT ![p].pc = "done", ![p].written = Ids(issues)]
                  /\ lastOp' = [op |-> "qc_commit", call |-> p, doc |-> calls[p].doc,
                                ret |-> issues]
    /\ issueSeq' = NextSeq(backend, issueSeq, Cardinality(calls[p].missing))
    /\ now' = now + 1
    /\ UNCHANGED <<backend, ragVars, templates, users, members, outputDocs, sections,
                   csrDocs, csrSections, sectionVersions, qcRules, aiLogs>>

(***************************************************************************)
(* The quality-control race specification: one document that misses one or *)
(* two required sections, checked before or not, and two run_qc calls for  *)
(* it that run at the same time.                                           *)
(***************************************************************************)
RaceSectionChoices ==
    {<<"SYNOPSIS", "EFFICACY", "SAFETY", "PK">>, <<"SYNOPSIS", "EFFICACY", "SAFETY">>}

InitQcRace ==
    /\ backend \in Backends
    /\ InitSources
    /\ templates = {}
    /\ outputDocs = {OutputDocumentRow(1, 1, "en")}
    /\ csrDocs = {}
    /\ csrSections = {}
    /\ sectionVersions = {}
    /\ calls = [p \in CallIds |-> IdleQcCall]
    /\ qcRules = {RequiredSectionsRule(1, TRUE)}
    /\ \E codes \in RaceSectionChoices, checked_before \in BOOLEAN :
          LET required_codes == {sec.code : sec \in Range(DEFAULT_CSR_SECTIONS)}
              missing_codes == MissingCodes(required_codes, Range(codes))
          IN  /\ sections = SectionRows(1, codes)
              /\ IF checked_before
                 THEN /\ \E order \in Orderings(missing_codes) :
                            qcIssues = NewIssueRows(order, 0, 1, 1, RequiredSectionsRule(1, TRUE),
                                                    get_qc_rule_config("en").severity, "en", 0)
                      /\ issueSeq = Cardinality(missing_codes)
                 ELSE /\ qcIssues = {}
                      /\ issueSeq = 0
    /\ aiLogs = <<>>
    /\ now = 0
    /\ lastOp = NoOp

NextQcRace ==
    \E p \in CallIds :
        \/ \E language \in Languages : StepQcBegin(p, 1, 1, language)
        \/ StepQcDeleteStart(p)
        \/ StepQcDeleteEnd(p)
        \/ StepQcBusy(p)
        \/ StepQcCommit(p)

SpecQcRace == InitQcRace /\ [][NextQcRace]_vars

(***************************************************************************)
(* The prompt specification: build_generate_section_prompt called on its   *)
(* own, for studies with and without phase, indication and sponsor, for    *)
(* context dictionaries with keys absent, empty and filled, for a current  *)
(* text and a caller's instruction absent, empty and filled, and for the   *)
(* languages "ru", "en" and one that is neither.                           *)
(***************************************************************************)
PromptStudies ==
    {[id |-> 1, code |-> "S-001", title |-> "Study One", phase |-> phase,
      indication |-> indication, sponsor_name |-> sponsor_name] :
        phase \in {None, "", "II"}, indication \in {None, "Asthma"},
        sponsor_name \in {None, "Acme"}}

PromptSection == [id |-> 11, code |-> "SYNOPSIS", title |-> "Synopsis"]

\* what a context dictionary holds under a key: a text with words, a text of
\* two lines, a blank, the empty string
PromptContextValues ==
    [protocol |-> {<<>>, <<SP>>, <<W("Dose", 4)>>},
     sap |-> {<<>>, <<W("Anova", 5)>>},
     tlf |-> {<<W("Table", 5), SP, W("1", 1)>>},
     csr_prev |-> {<<>>, <<W("Earlier", 7), NL, W("report", 6)>>}]

PromptContexts ==
    UNION {[keys -> UNION {PromptContextValues[k] : k \in keys}] :
              keys \in SUBSET {"protocol", "sap", "tlf", "csr_prev"}}

PromptArgs == {NoArg, Arg(<<>>), Arg(<<W("Shorter", 7)>>)}

PromptLanguages == {"ru", "en", "de"}

\* a call of build_generate_section_prompt that has been made and has not returned yet
InitPrompt ==
    /\ backend = "postgresql"
    /\ InitSources
    /\ InitNoDocuments
    /\ \E study \in PromptStudies, current_text \in PromptArgs, user_prompt \in PromptArgs,
          rag_context_by_source_type \in PromptContexts, language \in PromptLanguages :
            /\ \A k \in DOMAIN rag_context_by_source_type :
                  rag_context_by_source_type[k] \in PromptContextValues[k]
            /\ lastOp = [op |-> "prompt_call", study |-> study, section |-> PromptSection,
                         current_text |-> current_text,
                         rag_context_by_source_type |-> rag_context_by_source_type,
                         user_prompt |-> user_prompt, language |-> language]

\* the call returns
BuildGenerateSectionPrompt ==
    /\ lastOp.op = "prompt_call"
    /\ lastOp' = [lastOp EXCEPT !.op = "prompt"] @@
                 [prompt |-> build_generate_section_prompt(
                                 lastOp.study, lastOp.section, lastOp.current_text,
                                 lastOp.rag_context_by_source_type, lastOp.user_prompt,
                                 lastOp.language)]
    /\ UNCHANGED <<backend, ragVars, docVars, qcVars>>

NextPrompt == BuildGenerateSectionPrompt

SpecPrompt == InitPrompt /\ [][NextPrompt]_vars

(***************************************************************************)
(* The merge-pass specification: chunk_text called on texts whose          *)
(* paragraphs shrink when they are cleaned, so that two chunks of the      *)
(* first pass can fit into one, with min_chunk_size below, at and above    *)
(* the length of a chunk, zero and negative.                               *)
(***************************************************************************)
MaxParagraphs == 3

\* paragraphs of one word, and of two words with two and three spaces between them
MergeParagraphs ==
    {<<W("a", 2)>>, <<W("b", 5)>>, <<W("c", 9)>>, <<W("a", 2), SP, SP, W("b", 5)>>,
     <<W("a", 2), SP, SP, SP, W("b", 5)>>}

\* the texts of at most n paragraphs
RECURSIVE MergeTextsOf(_)
MergeTextsOf(n) ==
    IF n = 0 THEN {<<>>}
    ELSE MergeTextsOf(n - 1)
             \cup {IF t = <<>> THEN q ELSE t \o ParaSep \o q :
                      t \in MergeTextsOf(n - 1), q \in MergeParagraphs}

MergeMaxSizes == {6, 12, 13}
MergeMinSizes == {-1, 0, 2, 4}

\* a call of chunk_text that has been made and has not returned yet
InitMergePass ==
    /\ backend = "postgresql"
    /\ InitSources
    /\ InitNoDocuments
    /\ \E text \in MergeTextsOf(MaxParagraphs), max_chunk_size \in MergeMaxSizes,
          min_chunk_size \in MergeMinSizes :
            lastOp = [op |-> "chunk_call", text |-> text, max_chunk_size |-> max_chunk_size,
                      min_chunk_size |-> min_chunk_size]

NextMergePass == ChunkText

SpecMergePass == InitMergePass /\ [][NextMergePass]_vars

(***************************************************************************)
(* The soft-deleted document specification: the source document            *)
(* specification with POST /rag/ingest, and with the file of the archived  *)
(* document still in storage, where a soft delete leaves it.               *)
(***************************************************************************)
InitSoftDeleted ==
    /\ backend \in Backends
    /\ studies = StudyRows
    /\ users = UserRows
    /\ members = MemberRows
    /\ \/ sourceDocs = {} /\ docSeq = 0
       \/ sourceDocs = {ArchivedSourceDocument} /\ docSeq = 1
    /\ \E content \in {Missing, Readable(TextOne)} :
          files = [p \in Paths \cup {StoragePath(1, ArchivedName)} |->
                      IF p = StoragePath(1, ArchivedName) /\ sourceDocs # {}
                      THEN content ELSE Missing]
    /\ ragChunks = {}
    /\ chunkSeq = 0
    /\ bgTasks = {}
    /\ InitNoDocuments
    /\ lastOp = NoOp

NextSoftDeleted ==
    \/ LifecycleUploads
    \/ \E d \in bgTasks : RunIngestionBackground(d)
    \/ \E d \in 1..MaxDocs + 1 : IngestEndpoint(d)
    \/ \E d \in 1..MaxDocs + 1, caller \in Callers : DeleteSourceDocument(d, caller)
    \/ \E d \in 1..MaxDocs + 1, caller \in Callers : RestoreSourceDocument(d, caller)

SpecSoftDeleted == InitSoftDeleted /\ [][NextSoftDeleted]_vars

(***************************************************************************)
(* The retrieval-over-lifecycle specification: retrieval over the chunks   *)
(* of documents that are current, superseded by a later upload, and        *)
(* archived.                                                               *)
(***************************************************************************)
NextRetrieveAny ==
    \/ LifecycleUploads
    \/ \E d \in bgTasks : RunIngestionBackground(d)
    \/ \E d \in 1..MaxDocs : IngestEndpoint(d)
    \/ \E study_id \in DOMAIN StudyRows, limit \in {1, DefaultLimitPerSource},
          language \in {"ru", "de"} :
            RetrieveRagChunks(study_id, NoArg, limit, language)

SpecRetrieveAny == InitSoftDeleted /\ [][NextRetrieveAny]_vars

(***************************************************************************)
(* Claims about ingestion.                                                 *)
(***************************************************************************)
IngestReturned(op) == op.op = "ingest" /\ op.found /\ ~op.raised

DocPath(rows, d) ==
    LET r == CHOOSE x \in rows : x.id = d IN StoragePath(r.study_id, r.file_name)

\* the chunks of the text the file of document d holds now
ChunksOfCurrentText(rows, fs, d) ==
    chunk_text(extract_text_from_file(fs, DocPath(rows, d)).text,
               DefaultMaxChunkSize, DefaultMinChunkSize)

\* C1: after ingest(d) returned n, the chunks stored for d are exactly the n
\* chunks of the file's current text with order_index 0..n-1 each once (so no
\* chunk of an earlier run is left beside them), the chunks of every other
\* source document are the rows they were, and d.index_status is 'indexed'.
C1_IngestReplacesChunks ==
    [][IngestReturned(lastOp') =>
        LET d == lastOp'.doc
            n == lastOp'.ret
            mine == ChunksOf(ragChunks', d)
            expected == ChunksOfCurrentText(sourceDocs', files', d)
            src == CHOOSE x \in sourceDocs' : x.id = d
        IN  /\ n = Len(expected)
            /\ Cardinality(mine) = n
            /\ \A i \in 0..n - 1 :
                  \E c \in mine :
                      /\ c.order_index = i
                      /\ c.text = expected[i + 1]
                      /\ c.study_id = src.study_id
                      /\ c.source_type = src.type
                      /\ \A c2 \in mine : c2.order_index = i => c2 = c
            /\ ragChunks' \ mine = ragChunks \ ChunksOf(ragChunks, d)
            /\ src.index_status = "indexed"]_vars

\* C1 witness: a re-ingestion that returned 2 for a document that owned chunks
\* before the call, while another document owns chunks too
C1_Witness ==
    /\ IngestReturned(lastOp)
    /\ lastOp.ret = 2
    /\ lastOp.owned >= 1
    /\ \E c \in ragChunks : c.source_document_id # lastOp.doc

\* the stored file cannot be turned into text: it is not there, it does not
\* parse, or its format is not one of the supported ones
CannotBeTurnedIntoText(fs, path) ==
    LET suffix == Lower(path.name.suffix)
    IN  \/ fs[path].kind = "missing"
        \/ suffix \in ParsedSuffixes /\ fs[path].kind = "corrupt"
        \/ suffix \notin PlainSuffixes \cup ParsedSuffixes

\* C2: whenever the stored file of an existing source document cannot be
\* turned into text, ingest raises and leaves index_status at 'error'.
C2_ExtractionFailureSetsError ==
    (lastOp.op = "ingest" /\ lastOp.found
        /\ CannotBeTurnedIntoText(files, DocPath(sourceDocs, lastOp.doc)))
    => /\ lastOp.raised
       /\ (CHOOSE x \in sourceDocs : x.id = lastOp.doc).index_status = "error"

(***************************************************************************)
(* Claims about retrieval and the template context.                        *)
(***************************************************************************)
\* the language of the source document that owns chunk c
OwnerLanguages(c) == {sd.language : sd \in {x \in sourceDocs : x.id = c.source_document_id}}

StoredOf(study_id, stype) ==
    {c \in ragChunks : c.study_id = study_id /\ c.source_type = stype}

StoredInLanguage(study_id, stype, language) ==
    {c \in StoredOf(study_id, stype) : language \in OwnerLanguages(c)}

Smaller(a, b) == IF a < b THEN a ELSE b

\* C3: a retrieval with preferred language ru or en returns, per requested
\* category, only chunks owned by a document of that language when the study
\* has any such chunk in the category (as many as the limit allows, no chunk of
\* another language added), and chunks of any language when it has none; so a
\* study with only English protocol chunks gets a non-empty protocol list for
\* 'ru' under any limit of at least one.
C3_PreferredLanguageOrFallback ==
    (lastOp.op = "retrieve" /\ lastOp.language \in {"ru", "en"}) =>
        \A t \in DOMAIN lastOp.result :
            LET got == Range(lastOp.result[t])
                inLang == StoredInLanguage(lastOp.study, t, lastOp.language)
                any == StoredOf(lastOp.study, t)
            IN  /\ inLang # {} =>
                      /\ got \subseteq inLang
                      /\ Cardinality(got) = Smaller(lastOp.limit, Cardinality(inLang))
                /\ inLang = {} =>
                      /\ got \subseteq any
                      /\ Cardinality(got) = Smaller(lastOp.limit, Cardinality(any))
                      /\ (any # {} /\ lastOp.limit >= 1 => got # {})

\* C3 witness: the study has Russian and English protocol chunks, fewer English
\* ones than the limit, and a retrieval preferring 'en' returned English only
C3_Witness ==
    /\ lastOp.op = "retrieve"
    /\ lastOp.language = "en"
    /\ "protocol" \in DOMAIN lastOp.result
    /\ StoredInLanguage(lastOp.study, "protocol", "ru") # {}
    /\ StoredInLanguage(lastOp.study, "protocol", "en") # {}
    /\ Len(lastOp.result["protocol"]) < lastOp.limit
    /\ Range(lastOp.result["protocol"]) = StoredInLanguage(lastOp.study, "protocol", "en")

\* the chunks the query that produced the list of category t chose from
CandidatesOf(op, t) ==
    IF op.language \in {"ru", "en"} /\ StoredInLanguage(op.study, t, op.language) # {}
    THEN StoredInLanguage(op.study, t, op.language)
    ELSE StoredOf(op.study, t)

\* C4: a retrieval returns a key for every requested category and no other,
\* an empty list where the study has no chunk of the category; every list has
\* at most `limit` chunks, all stored chunks of that study and category, in
\* non-decreasing order_index, and no candidate that was left out has a smaller
\* order_index than a returned chunk.
C4_RetrieveOrderedLimited ==
    lastOp.op = "retrieve" =>
        LET requested == IF lastOp.types.given THEN Range(lastOp.types.v)
                         ELSE {"protocol", "sap", "tlf", "csr_prev"}
        IN  /\ DOMAIN lastOp.result = requested
            /\ \A t \in requested :
                  LET list == lastOp.result[t]
                  IN  /\ Len(list) <= lastOp.limit
                      /\ StoredOf(lastOp.study, t) = {} => list = <<>>
                      /\ \A i \in 1..Len(list) :
                            /\ list[i] \in ragChunks
                            /\ list[i].study_id = lastOp.study
                            /\ list[i].source_type = t
                      /\ \A i, j \in 1..Len(list) :
                            i < j => list[i].order_index <= list[j].order_index
                      /\ \A c \in CandidatesOf(lastOp, t) \ Range(list) :
                            \A i \in 1..Len(list) : list[i].order_index <= c.order_index

\* C4 witness: a default-category retrieval with limit 1 that left out two
\* protocol candidates, one of them with the order_index of the returned chunk,
\* and returned an empty list for a category without chunks
C4_Witness ==
    /\ lastOp.op = "retrieve"
    /\ ~lastOp.types.given
    /\ lastOp.limit = 1
    /\ Len(lastOp.result["protocol"]) = 1
    /\ Cardinality(StoredOf(lastOp.study, "protocol")) = 3
    /\ \E c \in StoredOf(lastOp.study, "protocol") \ Range(lastOp.result["protocol"]) :
          c.order_index = lastOp.result["protocol"][1].order_index
    /\ lastOp.result["tlf"] = <<>>

\* C6: the context built for an existing study gives every key of
\* extra_context the caller's value, keeps the study value or the retrieved
\* text under every other computed key, and always has the four context_* keys.
C6_ExtraContextWins ==
    (lastOp.op = "context" /\ ~lastOp.raised) =>
        LET extra == IF lastOp.extra.given THEN lastOp.extra.v ELSE <<>>
            ctx == lastOp.ctx
            study == studies[lastOp.study]
        IN  /\ \A k \in DOMAIN extra : k \in DOMAIN ctx /\ ctx[k] = extra[k]
            /\ {"context_protocol", "context_sap", "context_tlf_summary",
                "context_csr_prev"} \subseteq DOMAIN ctx
            /\ StudyKeys \subseteq DOMAIN ctx
            /\ \A k \in StudyKeys \ DOMAIN extra : ctx[k] = StudyContext(study)[k]
            /\ \A t \in Range(SourceTypes) :
                  ContextKey(t) \notin DOMAIN extra =>
                      ctx[ContextKey(t)] = PyStr(build_rag_context_text(lastOp.rag)[t])

\* C6 witness: extra_context overrode study_id and phase (phase with None) in a
\* context whose context_protocol holds retrieved text
C6_Witness ==
    /\ lastOp.op = "context"
    /\ ~lastOp.raised
    /\ lastOp.extra.given
    /\ "study_id" \in DOMAIN lastOp.extra.v
    /\ lastOp.ctx["study_id"] = Word("X-9")
    /\ lastOp.ctx["phase"] = PyNone
    /\ studies[lastOp.study].phase # None
    /\ lastOp.ctx["context_protocol"].s # <<>>

(***************************************************************************)
(* Claims about rendering.                                                 *)
(***************************************************************************)
\* <<i, k>>: a placeholder with an identifier of k characters occupies i..i+k+3
Placeholders(s) ==
    {o \in (1..Len(s)) \X (1..Len(s)) :
        /\ o[1] + o[2] + 3 <= Len(s)
        /\ s[o[1]] = LB /\ s[o[1] + 1] = LB
        /\ \A j \in o[1] + 2..o[1] + o[2] + 1 : s[j].c \in {"a", "b"}
        /\ s[o[1] + o[2] + 2] = RB /\ s[o[1] + o[2] + 3] = RB}

PlaceholderName(s, o) == NameOf(SubSeq(s, o[1] + 2, o[1] + o[2] + 1))

RECURSIVE Flatten(_)
Flatten(parts) == IF parts = <<>> THEN <<>> ELSE Head(parts) \o Flatten(Tail(parts))

\* the position of the first placeholder of s with the given identifier
FirstPlace(s, name) ==
    CHOOSE i \in 1..Len(s) :
        /\ \E o \in Placeholders(s) : o[1] = i /\ PlaceholderName(s, o) = name
        /\ \A o \in Placeholders(s) : PlaceholderName(s, o) = name => i <= o[1]

\* C5: render does not raise; the output is the template with exactly the
\* placeholders whose identifier is a context key replaced by the value's
\* string form ('' for None), the inserted text taken as it is, and every other
\* character kept; used_variables has exactly the substituted identifiers with
\* their inserted text; missing_variables lists the other identifiers once
\* each in order of first occurrence (so it is empty when all are keys).
C5_RenderSubstitutesKnownPlaceholders ==
    lastOp.op = "render" =>
        LET s == lastOp.template
            ctx == lastOp.context
            known == {o \in Placeholders(s) : PlaceholderName(s, o) \in DOMAIN ctx}
            unknown == {PlaceholderName(s, o) : o \in Placeholders(s) \ known}
            inserted(name) == IF ctx[name] = PyNone THEN <<>> ELSE ctx[name].s
            piece(i) ==
                IF \E o \in known : o[1] = i
                THEN inserted(PlaceholderName(s, CHOOSE o \in known : o[1] = i))
                ELSE IF \E o \in known : o[1] < i /\ i <= o[1] + o[2] + 3
                     THEN <<>>
                     ELSE <<s[i]>>
        IN  /\ ~lastOp.raised
            /\ lastOp.text = Flatten([i \in 1..Len(s) |-> piece(i)])
            /\ DOMAIN lastOp.used = {PlaceholderName(s, o) : o \in known}
            /\ \A name \in DOMAIN lastOp.used : lastOp.used[name] = inserted(name)
            /\ Range(lastOp.missing) = unknown
            /\ Len(lastOp.missing) = Cardinality(unknown)
            /\ \A i, j \in 1..Len(lastOp.missing) :
                  i < j => FirstPlace(s, lastOp.missing[i]) < FirstPlace(s, lastOp.missing[j])
            /\ (known = Placeholders(s) => lastOp.missing = <<>>)

\* C5 witness: {{a}}{{b}} rendered with a context that maps a to the text
\* '{{b}}' and has no b: the inserted text is not expanded, {{b}} is kept
C5_Witness ==
    /\ lastOp.op = "render"
    /\ lastOp.template = <<LB, LB, W("a", 1), RB, RB, LB, LB, W("b", 1), RB, RB>>
    /\ DOMAIN lastOp.context = {"a"}
    /\ lastOp.context["a"] = PyStr(<<LB, LB, W("b", 1), RB, RB>>)
    /\ lastOp.text = <<LB, LB, W("b", 1), RB, RB, LB, LB, W("b", 1), RB, RB>>
    /\ DOMAIN lastOp.used = {"a"}
    /\ lastOp.missing = <<"b">>

(***************************************************************************)
(* Claims about the content language.                                      *)
(***************************************************************************)
ValidLanguage(l) == l \in {"ru", "en"}

\* C7: the resolver returns the document's language when the document is
\* there and its language is ru or en; else the user's ui_language when the
\* user is there and it is ru or en; else the request language when that is ru
\* or en; else 'en'.  The result is always ru or en.
C7_ContentLanguagePrecedence ==
    lastOp.op = "resolve" =>
        LET docLang == IF lastOp.document.given THEN lastOp.document.v.language ELSE None
            userLang == IF lastOp.user.given THEN lastOp.user.v.ui_language ELSE None
            tiers == <<docLang, userLang, lastOp.request_language>>
            valid == {i \in 1..3 : ValidLanguage(tiers[i])}
        IN  /\ lastOp.ret \in {"ru", "en"}
            /\ valid # {} => lastOp.ret = tiers[CHOOSE i \in valid : \A j \in valid : i <= j]
            /\ valid = {} => lastOp.ret = "en"

\* C7 witness: a document whose language is not valid, a user with ui_language
\* 'ru' and a request language 'en': the user's language is returned
C7_Witness ==
    /\ lastOp.op = "resolve"
    /\ lastOp.document.given /\ lastOp.document.v.language = "de"
    /\ lastOp.user.given /\ lastOp.user.v.ui_language = "ru"
    /\ lastOp.request_language = "en"
    /\ lastOp.ret = "ru"

(***************************************************************************)
(* Claims about quality control.                                           *)
(***************************************************************************)
TheRule == CHOOSE r \in qcRules : r.code = "REQUIRED_SECTIONS"

\* run_qc ran its check: the document exists and the rule is active
QcCompleted ==
    /\ lastOp.op = "run_qc"
    /\ \E d \in outputDocs : d.id = lastOp.doc
    /\ TheRule.is_active

OpenNow == {i \in qcIssues : /\ i.document_id = lastOp.doc
                             /\ i.rule_id = TheRule.id
                             /\ i.status = "open"}

CodesOfDocument(document_id) == {sec.code : sec \in {x \in sections : x.document_id = document_id}}

Names(message, code) == \E i \in 1..Len(message) : message[i] = W(code, Len(code))

\* C9: after run_qc on an existing document with the rule active, the open
\* issues of the rule for the document are one per required code that no
\* section of the document has, each message naming its code, and they are
\* the issues returned; sections {SYNOPSIS, EFFICACY} give exactly 3.
C9_OneOpenIssuePerMissingCode ==
    QcCompleted =>
        LET missing == {"SYNOPSIS", "EFFICACY", "SAFETY", "PK", "DISCUSSION"}
                           \ CodesOfDocument(lastOp.doc)
        IN  /\ Cardinality(OpenNow) = Cardinality(missing)
            /\ \A code \in missing : \E i \in OpenNow : Names(i.message, code)
            /\ \A i \in OpenNow : \E code \in missing : Names(i.message, code)
            /\ lastOp.ret = OpenNow
            /\ (CodesOfDocument(lastOp.doc) = {"SYNOPSIS", "EFFICACY"}
                    => Cardinality(OpenNow) = 3)

\* C9 witness: a second run on the document with sections SYNOPSIS and
\* EFFICACY, which has a resolved issue too, returned 3 issues
C9_Witness ==
    /\ QcCompleted
    /\ CodesOfDocument(lastOp.doc) = {"SYNOPSIS", "EFFICACY"}
    /\ Cardinality(lastOp.ret) = 3
    /\ lastOp.before # {}
    /\ \E i \in qcIssues : i.document_id = lastOp.doc /\ i.status = "resolved"

\* the second of two run_qc calls in a row on the same document in the same language
SecondRunInARow == QcCompleted /\ lastOp.again

\* C10 as stated: after the second of two runs in a row the open issue
\* messages are those after the first run, and no open issue row has the id
\* of an open issue row that existed after the first run.
C10_SecondRunSameMessagesNewIds ==
    SecondRunInARow =>
        /\ {i.message : i \in OpenNow} = {b.message : b \in lastOp.before}
        /\ {i.id : i \in OpenNow} \cap {b.id : b \in lastOp.before} = {}

\* C10 amended: the messages are the same; the ids are new when the database
\* never gives a deleted row's key to a new row (PostgreSQL sequences).
C10_SecondRunSameMessages ==
    SecondRunInARow =>
        /\ {i.message : i \in OpenNow} = {b.message : b \in lastOp.before}
        /\ (backend = "postgresql" =>
                {i.id : i \in OpenNow} \cap {b.id : b \in lastOp.before} = {})

\* C10 witness: a second run in a row under PostgreSQL that replaced 3 open issues
C10_Witness ==
    /\ SecondRunInARow
    /\ backend = "postgresql"
    /\ Cardinality(lastOp.before) = 3
    /\ Cardinality(OpenNow) = 3

(***************************************************************************)
(* Claims about the endpoints.                                             *)
(***************************************************************************)
\* the request ran quality control, or built a prompt with the prompt builder
HandedALanguage ==
    \/ lastOp.op = "run_qc" /\ lastOp.via = "endpoint"
    \/ lastOp.op = "ai_generate" /\ lastOp.status \in {200, 500} /\ lastOp.via = "builder"

\* C8: the language that the QC-run endpoint hands the QC engine, and the AI
\* endpoint the prompt builder, is the content language of the document the
\* request is about, whatever the caller's ui_language and Accept-Language.
C8_EndpointsHandDocumentLanguage ==
    HandedALanguage =>
        \A d \in outputDocs : d.id = lastOp.doc => lastOp.language = d.language

\* the open issues of REQUIRED_SECTIONS for document d, among the given rows
ReconciledBy(issues, rules, d) ==
    {i \in issues : /\ i.document_id = d
                    /\ i.status = "open"
                    /\ \E r \in rules : r.code = "REQUIRED_SECTIONS" /\ r.id = i.rule_id}

\* C11: a run_qc call on document d deletes and creates only open issues of
\* (d, REQUIRED_SECTIONS): every issue that is resolved or wont_fix, belongs
\* to another document or to another rule is the same row before and after.
C11_RunQcLeavesOtherIssues ==
    [][lastOp'.op = "run_qc" =>
          /\ \A i \in qcIssues \ qcIssues' : i \in ReconciledBy(qcIssues, qcRules', lastOp'.doc)
          /\ \A i \in qcIssues' \ qcIssues : i \in ReconciledBy(qcIssues', qcRules', lastOp'.doc)]_vars

\* C11 witness: a run replaced open issues of a document that also has a
\* resolved issue, a wont_fix issue and an open issue of another rule
C11_Witness ==
    /\ lastOp.op = "run_qc" /\ lastOp.checked
    /\ lastOp.before # {} /\ lastOp.ret # {}
    /\ \E i \in qcIssues : i.document_id = lastOp.doc /\ i.status = "resolved"
    /\ \E i \in qcIssues : i.document_id = lastOp.doc /\ i.status = "wont_fix"
    /\ \E i \in qcIssues : i.document_id = lastOp.doc /\ i.rule_id # TheRule.id

(***************************************************************************)
(* Claims about the chunker.                                               *)
(***************************************************************************)
\* the non-whitespace content of a text, in order
WordsOf(s) == SelectSeq(s, LAMBDA tok : ~IsWs(tok))

\* the paragraphs of a text: the pieces between two consecutive newlines
ParagraphsOf(text) == SplitOn(text, NL, 2, <<>>)

\* the length of a paragraph without the whitespace around it
ParagraphLen(p) == StrLen(Strip(p))

\* C12: every chunk that chunk_text returns, after the merge pass, is at most
\* max_chunk_size long, unless it consists of one single paragraph of the
\* text that is itself longer than max_chunk_size.
C12_ChunkAtMostMaxSize ==
    lastOp.op = "chunk" =>
        \A i \in 1..Len(lastOp.chunks) :
            \/ StrLen(lastOp.chunks[i]) <= lastOp.max_chunk_size
            \/ \E j \in 1..Len(ParagraphsOf(lastOp.text)) :
                  /\ ParagraphLen(ParagraphsOf(lastOp.text)[j]) > lastOp.max_chunk_size
                  /\ WordsOf(lastOp.chunks[i]) = WordsOf(ParagraphsOf(lastOp.text)[j])

\* C12 witness: a text of three paragraphs, one of them longer than
\* max_chunk_size and a chunk of its own, the others in a chunk within the limit
C12_Witness ==
    /\ lastOp.op = "chunk"
    /\ Len(lastOp.chunks) >= 2
    /\ lastOp.min_chunk_size > 0
    /\ \E i \in 1..Len(lastOp.chunks) : StrLen(lastOp.chunks[i]) > lastOp.max_chunk_size
    /\ \E i \in 1..Len(lastOp.chunks) :
          /\ StrLen(lastOp.chunks[i]) <= lastOp.max_chunk_size
          /\ Len(WordsOf(lastOp.chunks[i])) >= 2

\* the concatenation of the sequences of a sequence
RECURSIVE Concat(_)
Concat(parts) == IF parts = <<>> THEN <<>> ELSE Head(parts) \o Concat(Tail(parts))

\* C13: the chunks, read in order, hold the non-whitespace content of the
\* text, all of it, once, in the original order, and nothing else; a text
\* that is empty or only whitespace gives no chunk; no chunk is empty.
C13_ChunksKeepEveryParagraph ==
    lastOp.op = "chunk" =>
        /\ Concat([i \in 1..Len(lastOp.chunks) |-> WordsOf(lastOp.chunks[i])])
               = WordsOf(lastOp.text)
        /\ (WordsOf(lastOp.text) = <<>> => lastOp.chunks = <<>>)
        /\ \A i \in 1..Len(lastOp.chunks) : lastOp.chunks[i] # <<>>

\* C13 witness: a text with whitespace to normalise whose paragraphs end up
\* in two chunks, one of them holding two paragraphs
C13_Witness ==
    /\ lastOp.op = "chunk"
    /\ Len(lastOp.chunks) = 2
    /\ Len(WordsOf(lastOp.text)) = 3
    /\ StrLen(lastOp.text) > StrLen(Join(lastOp.chunks, ParaSep))

(***************************************************************************)
(* Claims about section versions.                                          *)
(***************************************************************************)
\* the version rows a step adds
AddedVersions == sectionVersions' \ sectionVersions

\* (a, i) is at most (b, j) in the order by created_at, then id
StampAtMost(v, w) ==
    \/ v.created_at < w.created_at
    \/ v.created_at = w.created_at /\ v.id <= w.id

\* C14: every successful generation of section text appends exactly one new
\* version holding the generated text to the target section: a template applied
\* appends a version with source 'template' and the template's id, an AI
\* generation appends a version with source 'ai'.
C14_GenerationAppendsOneVersion ==
    [][/\ (lastOp'.op = "apply_template" /\ lastOp'.status = 201) =>
              \E v \in AddedVersions :
                  /\ AddedVersions = {v}
                  /\ v = lastOp'.ret
                  /\ v.section_id = lastOp'.section
                  /\ v.source = "template"
                  /\ v.template_id = lastOp'.template
       /\ (lastOp'.op = "ai_generate" /\ lastOp'.status = 200) =>
              \/ \E v \in AddedVersions :
                    /\ AddedVersions = {v}
                    /\ v.section_id = lastOp'.section
                    /\ v.source = "ai"
                    /\ v.text = lastOp'.generated_text
              \/ \E s \in csrSections, t \in csrSections' :
                    /\ s.id = lastOp'.section
                    /\ t.id = s.id
                    /\ Len(t.versions) = Len(s.versions) + 1
                    /\ SubSeq(t.versions, 1, Len(s.versions)) = s.versions
                    /\ t.versions[Len(t.versions)].text = lastOp'.generated_text]_vars

\* C15: no create-version, apply-template or generate operation modifies or
\* removes a version of a section, and the latest-version read returns the
\* version of that section with the greatest created_at, the greatest id among
\* those of equal created_at, and answers 404 when the section has no version.
C15_VersionsAppendOnlyLatestIsMax ==
    [][/\ sectionVersions \subseteq sectionVersions'
       /\ \A s \in csrSections : \E t \in csrSections' :
              /\ t.id = s.id
              /\ Len(t.versions) >= Len(s.versions)
              /\ SubSeq(t.versions, 1, Len(s.versions)) = s.versions
       /\ lastOp'.op = "latest_version" =>
              LET rows == {v \in sectionVersions : v.section_id = lastOp'.section}
              IN  IF rows = {} THEN lastOp'.status = 404
                  ELSE /\ lastOp'.status = 200
                       /\ lastOp'.ret \in rows
                       /\ \A w \in rows : StampAtMost(w, lastOp'.ret)]_vars

\* C15 witness: after a generation, the latest version of a section with two
\* versions was read and is not the one inserted last
C15_Witness ==
    /\ lastOp.op = "latest_version"
    /\ lastOp.status = 200
    /\ aiLogs # <<>>
    /\ \E w \in sectionVersions :
          /\ w.section_id = lastOp.section
          /\ w.id > lastOp.ret.id
          /\ w.created_at < lastOp.ret.created_at

(***************************************************************************)
(* Claims about the life of a source document.                             *)
(***************************************************************************)
LifecycleOps == {"soft_delete", "permanent_delete", "restore"}

\* C16: whatever uploads, soft deletes, restores and permanent deletes have
\* happened, at most one source document per (study, type, language) is current.
C16_AtMostOneCurrentPerSlot ==
    \A r, s \in sourceDocs :
        (r.is_current /\ s.is_current /\ SameSlot(r, s.study_id, s.type, s.language))
            => r = s

\* C16 witness: a delete or restore was asked for a document of a slot that holds
\* two documents, one of them current
C16_Witness ==
    /\ lastOp.op \in LifecycleOps
    /\ lastOp.before # {}
    /\ \E r, s \in sourceDocs :
          /\ r.id # s.id
          /\ SameSlot(r, s.study_id, s.type, s.language)
          /\ r.is_current
          /\ lastOp.doc \in {r.id, s.id}

\* the role of the caller of the last request in the study of the document it
\* was about, "none" for a caller who is no member
CallerRole ==
    LET roles == {x.role : x \in {y \in members :
                                    /\ y.user_id = lastOp.caller.user
                                    /\ \E b \in lastOp.before : y.study_id = b.study_id}}
    IN  IF roles = {} THEN "none" ELSE CHOOSE r \in roles : TRUE

\* the row of the document of the last request as it is stored now
StoredNow == {r \in sourceDocs : r.id = lastOp.doc}

WasArchived == \A b \in lastOp.before : b.status = "archived"

RowAndChunksUnchanged ==
    /\ StoredNow = lastOp.before
    /\ ChunksOf(ragChunks, lastOp.doc) = lastOp.chunks_before

\* C17: a soft delete of document d by an owner or editor, or a permanent delete
\* by an owner, succeeds, and after it no RagChunk row of d exists; after the
\* soft delete d is stored with status 'archived', is_current false,
\* is_rag_enabled false and index_status 'not_indexed', after the permanent
\* delete the row of d is gone.
C17_DeleteRemovesChunks ==
    /\ (/\ lastOp.op = "soft_delete"
        /\ lastOp.before # {}
        /\ CallerRole \in {"owner", "editor"}) =>
            /\ lastOp.status = 204
            /\ ChunksOf(ragChunks, lastOp.doc) = {}
            /\ \E r \in StoredNow :
                  /\ r.status = "archived"
                  /\ ~r.is_current
                  /\ ~r.is_rag_enabled
                  /\ r.index_status = "not_indexed"
    /\ (/\ lastOp.op = "permanent_delete"
        /\ lastOp.before # {}
        /\ CallerRole = "owner") =>
            /\ lastOp.status = 204
            /\ ChunksOf(ragChunks, lastOp.doc) = {}
            /\ StoredNow = {}

\* C18: a restore of an archived document by an owner or editor succeeds, and
\* after it the stored and the returned document have status 'active',
\* is_rag_enabled true and index_status 'not_indexed'.
C18_RestoreMakesActiveNotIndexed ==
    (/\ lastOp.op = "restore"
     /\ lastOp.before # {}
     /\ WasArchived
     /\ CallerRole \in {"owner", "editor"}) =>
        /\ lastOp.status = 200
        /\ \E r \in StoredNow :
              /\ r.status = "active"
              /\ r.is_rag_enabled
              /\ r.index_status = "not_indexed"
              /\ lastOp.ret = r

\* C19: a restore of an archived document by an owner or editor makes it current
\* exactly when no other document of its (study, type, language) has status
\* 'active'; a restore of a document that is not archived is answered 400 and
\* changes nothing.
C19_RestoreCurrentIffNoOtherActive ==
    /\ (/\ lastOp.op = "restore"
        /\ lastOp.before # {}
        /\ WasArchived
        /\ CallerRole \in {"owner", "editor"}) =>
            /\ lastOp.status = 200
            /\ \E r \in StoredNow :
                  r.is_current <=>
                      ~\E s \in sourceDocs :
                          /\ s.id # r.id
                          /\ SameSlot(s, r.study_id, r.type, r.language)
                          /\ s.status = "active"
    /\ (/\ lastOp.op = "restore"
        /\ lastOp.before # {}
        /\ ~WasArchived) =>
            /\ lastOp.status = 400
            /\ RowAndChunksUnchanged

\* C20: a soft delete or restore changes the document or its chunks only for an
\* owner or editor of its study, a permanent delete only for an owner; any other
\* caller is answered 403 and the row and the chunks are as before, whatever the
\* status of the document.
C20_OthersRefusedWith403 ==
    (lastOp.op \in LifecycleOps /\ lastOp.before # {}) =>
        LET allowed == IF lastOp.op = "permanent_delete" THEN CallerRole = "owner"
                       ELSE CallerRole \in {"owner", "editor"}
        IN  /\ ~RowAndChunksUnchanged => allowed
            /\ ~allowed => (lastOp.status = 403 /\ RowAndChunksUnchanged)

(***************************************************************************)
(* Claims about study members.                                             *)
(***************************************************************************)
OwnersOf(study_id) == {x \in members : x.study_id = study_id /\ x.role = "owner"}

EveryStudyHasAnOwner == \A s \in DOMAIN studies : OwnersOf(s) # {}

\* C21: after any create-study, add-member and delete-member requests every
\* study has a member with role 'owner'; a request by which the only owner would
\* remove themselves is answered 400 and the membership stays.
C21_EveryStudyKeepsAnOwner ==
    [][/\ EveryStudyHasAnOwner'
       /\ (/\ lastOp'.op = "delete_member"
           /\ lastOp'.member = lastOp'.caller
           /\ OwnersOf(lastOp'.study)
                 = {[study_id |-> lastOp'.study, user_id |-> lastOp'.caller,
                     role |-> "owner"]}) =>
              (lastOp'.status = 400 /\ members' = members)]_vars

\* C21 witness: the only owner of a study with other members asked to be removed
\* and was answered 400
C21_Witness ==
    /\ lastOp.op = "delete_member"
    /\ lastOp.status = 400
    /\ lastOp.member = lastOp.caller
    /\ \E x \in members : x.study_id = lastOp.study /\ x.role # "owner"
    /\ Cardinality(OwnersOf(lastOp.study)) = 1

(***************************************************************************)
(* Claims about the request language.                                      *)
(***************************************************************************)
\* the header of the last call, empty when the request had none
HeaderOfCall == IF lastOp.header.given THEN lastOp.header.v ELSE <<>>

UserLanguageIsValid ==
    lastOp.user.given /\ lastOp.user.v.ui_language \in {"ru", "en"}

\* the header has the two letters next to each other, in either case
HasLetters(h, first, second) ==
    \E i \in 1..(Len(h) - 1) : h[i] \in first /\ h[i + 1] \in second

BothIngestsFinished == \A p \in CallIds : calls[p].pc = "done"

\* C23: when two ingest calls for the same document have interleaved and both
\* have finished, the chunks stored for the document are exactly those written
\* by the call that wrote last: order_index 0..n-1, each once, nothing left of
\* the other call.
C23_LastIngestWins ==
    (/\ lastOp.op = "ingest_commit"
     /\ DOMAIN calls = CallIds
     /\ BothIngestsFinished) =>
        /\ ChunksOf(ragChunks, lastOp.doc) = lastOp.written
        /\ \A c1, c2 \in ChunksOf(ragChunks, lastOp.doc) :
              c1.order_index = c2.order_index => c1 = c2
        /\ {c.order_index : c \in ChunksOf(ragChunks, lastOp.doc)}
              = 0..(Cardinality(lastOp.written) - 1)

\* the open REQUIRED_SECTIONS issues of document 1 that name the code
OpenIssuesNaming(code) ==
    {i \in qcIssues : /\ i.document_id = 1
                      /\ i.rule_id = 1
                      /\ i.status = "open"
                      /\ Names(i.message, code)}

RequiredCodes == {"SYNOPSIS", "EFFICACY", "SAFETY", "PK", "DISCUSSION"}

\* C24: run_qc calls on one document are not serialized, and a document gets
\* more than one open REQUIRED_SECTIONS issue for one missing code exactly by
\* two calls that both inserted, the DELETE of neither having seen the rows of
\* the other; no other way leads there, and then there are two.
C24_DuplicateIssuesFromOverlap ==
    \A code \in RequiredCodes :
        Cardinality(OpenIssuesNaming(code)) > 1 =>
            /\ Cardinality(OpenIssuesNaming(code)) = 2
            /\ \A p \in CallIds :
                  /\ calls[p].pc = "done"
                  /\ ~calls[p].raised
                  /\ calls[p].written # {}
                  /\ \A q \in CallIds \ {p} : calls[p].seen \cap calls[q].written = {}

\* C24 witness: both calls have finished and the document has two open issues
\* for one missing code
C24_Witness ==
    /\ DOMAIN calls = CallIds
    /\ \A p \in CallIds : calls[p].pc = "done"
    /\ \E code \in RequiredCodes : Cardinality(OpenIssuesNaming(code)) = 2
    /\ lastOp.op = "qc_commit"

\* the lines of a text: what stands between its newlines
LinesOf(s) ==
    LET breaks == {0, Len(s) + 1} \cup {i \in 1..Len(s) : s[i] = NL}
        Break(k) == CHOOSE b \in breaks : Cardinality({x \in breaks : x < b}) = k - 1
    IN  [k \in 1..(Cardinality(breaks) - 1) |-> SubSeq(s, Break(k) + 1, Break(k + 1) - 1)]

\* the wording of the language the prompt was asked in
PromptWording == PromptText[IF lastOp.language = "ru" THEN "ru" ELSE "en"]

\* the places where the line stands among the lines
LinesEqual(lines, line) == {i \in 1..Len(lines) : lines[i] = line}

\* the lines lead, from place i on, with the header and then the body, closed by an empty line
BlockAt(lines, i, header, body) ==
    LET block == header \o LinesOf(body) \o <<<<>>>>
    IN  /\ i + Len(block) - 1 <= Len(lines)
        /\ SubSeq(lines, i, i + Len(block) - 1) = block

\* the context string handed in for a source type, "" when the key is absent
ContextHandedIn(stype) ==
    IF stype \in DOMAIN lastOp.rag_context_by_source_type
    THEN lastOp.rag_context_by_source_type[stype] ELSE <<>>

\* the headers of the blocks after the context header, in the order of the claim;
\* the last two are the alternatives of the closing block
BlockHeaders ==
    <<PromptWording.protocol, PromptWording.sap, PromptWording.tlf, PromptWording.csr_prev,
      PromptWording.current_header, PromptWording.extra_header, PromptWording.task_header>>

\* the lines that begin as the study line does, up to the value
LinesLeadingWith(lines, line) ==
    LET lead == SubSeq(line, 1, Len(line) - 2)
    IN  {i \in 1..Len(lines) :
            /\ Len(lines[i]) > Len(lead)
            /\ SubSeq(lines[i], 1, Len(lead)) = lead}

\* the study line is there, once, with the value, before the context header, exactly when
\* the study has the value
StudyLine(lines, line, value) ==
    LET places == LinesLeadingWith(lines, line)
    IN  IF value \in {None, ""}
        THEN places = {}
        ELSE \E i \in places :
                /\ places = {i}
                /\ lines[i][Len(lines[i]) - 1] = W(value, Len(value))
                /\ \A j \in LinesEqual(lines, PromptWording.context_header) : i < j

\* the block stands once, at a place that satisfies After, exactly when the body is not empty
BlockWhenFilled(lines, header, lead, body, After(_)) ==
    LET places == LinesEqual(lines, header)
    IN  IF body = <<>>
        THEN places = {}
        ELSE \E i \in places :
                /\ places = {i}
                /\ BlockAt(lines, i, <<header>> \o lead, body)
                /\ After(i)

\* C25: the prompt holds, in this order, the protocol, SAP, TLF and previous
\* report blocks, each exactly when its context string is not empty, then the
\* current text block exactly when current_text is not empty, then exactly one
\* of the instruction block (user_prompt not empty) and the default task block;
\* the phase, indication and sponsor lines stand exactly when the study has the
\* value.
C25_PromptBlocksInOrder ==
    lastOp.op = "prompt" =>
        LET lines == LinesOf(lastOp.prompt)
            places == [a \in 1..Len(BlockHeaders) |-> LinesEqual(lines, BlockHeaders[a])]
            Anywhere(i) == TRUE
            AtTheEnd(i) == i + 3 = Len(lines)
            instructed == lastOp.user_prompt.given /\ lastOp.user_prompt.v # <<>>
        IN  /\ \A stype \in {"protocol", "sap", "tlf", "csr_prev"} :
                  BlockWhenFilled(lines, PromptWording[stype], <<>>, ContextHandedIn(stype),
                                  Anywhere)
            /\ BlockWhenFilled(lines, PromptWording.current_header, <<<<>>>>,
                               IF lastOp.current_text.given THEN lastOp.current_text.v ELSE <<>>,
                               Anywhere)
            /\ BlockWhenFilled(lines, PromptWording.extra_header, <<<<>>>>,
                               IF instructed THEN lastOp.user_prompt.v ELSE <<>>, AtTheEnd)
            /\ BlockWhenFilled(lines, PromptWording.task_header, <<<<>>>>,
                               IF instructed THEN <<>> ELSE PromptWording.task, AtTheEnd)
            /\ \A a, b \in 1..Len(BlockHeaders) :
                  a < b => \A i \in places[a], j \in places[b] :
                              /\ i < j
                              /\ \A c \in LinesEqual(lines, PromptWording.context_header) : c < i
            /\ StudyLine(lines, PromptWording.phase, lastOp.study.phase)
            /\ StudyLine(lines, PromptWording.indication, lastOp.study.indication)
            /\ StudyLine(lines, PromptWording.sponsor, lastOp.study.sponsor_name)

\* C25 witness: a prompt built for a study with phase and sponsor and without
\* indication, from a protocol and a previous-report context with the SAP
\* context empty, with a current text and without an instruction
C25_Witness ==
    /\ lastOp.op = "prompt"
    /\ lastOp.study.phase = "II"
    /\ lastOp.study.indication = None
    /\ lastOp.study.sponsor_name = "Acme"
    /\ ContextHandedIn("protocol") = <<W("Dose", 4)>>
    /\ ContextHandedIn("sap") = <<>>
    /\ ContextHandedIn("csr_prev") # <<>>
    /\ lastOp.current_text.v # <<>>
    /\ ~lastOp.user_prompt.given
    /\ LinesEqual(LinesOf(lastOp.prompt), PromptWording.task_header) # {}

\* the chunks of the first pass of the call
FirstPass ==
    GreedyChunks(NonEmptyStripped(SplitOn(lastOp.text, NL, 2, <<>>)), <<>>,
                 lastOp.max_chunk_size)

\* C26: in the second pass a chunk shorter than min_chunk_size that has a
\* predecessor is merged into it exactly when the length of the predecessor,
\* as it stands by then, plus 2 plus its own length is at most max_chunk_size;
\* a chunk of at least min_chunk_size and the first chunk are never merged;
\* with min_chunk_size at most 0 the pass changes nothing.
C26_MergePass ==
    lastOp.op = "chunk" =>
        LET first == FirstPass
            n == Len(first)
            \* the length of the last chunk of the result after the first i chunks
            acc[i \in 1..n] ==
                LET joined == acc[i - 1] + 2 + StrLen(first[i])
                IN  IF /\ i > 1
                       /\ StrLen(first[i]) < lastOp.min_chunk_size
                       /\ joined <= lastOp.max_chunk_size
                    THEN joined ELSE StrLen(first[i])
            merged == {i \in 2..n : /\ StrLen(first[i]) < lastOp.min_chunk_size
                                    /\ acc[i - 1] + 2 + StrLen(first[i])
                                           <= lastOp.max_chunk_size}
            \* the chunk of the result that the i-th chunk of the first pass ends up in
            place == [i \in 1..n |-> Cardinality((1..i) \ merged)]
        IN  /\ Len(lastOp.chunks) = Cardinality((1..n) \ merged)
            /\ \A k \in 1..Len(lastOp.chunks) :
                  LET parts == SelectSeq([i \in 1..n |-> i], LAMBDA i : place[i] = k)
                  IN  /\ parts # <<>>
                      /\ lastOp.chunks[k] = Join([j \in 1..Len(parts) |-> first[parts[j]]],
                                                 ParaSep)
                      /\ StrLen(lastOp.chunks[k]) = acc[parts[Len(parts)]]
            /\ lastOp.min_chunk_size <= 0 => lastOp.chunks = first

\* C26 witness: a call in which the second pass merged one small chunk into
\* its predecessor and left another small chunk separate
C26_Witness ==
    /\ lastOp.op = "chunk"
    /\ Len(FirstPass) = 3
    /\ Len(lastOp.chunks) = 2
    /\ \E i \in 1..Len(lastOp.chunks) :
          /\ StrLen(lastOp.chunks[i]) < lastOp.min_chunk_size
          /\ lastOp.chunks[i] \in Range(FirstPass)

C28_FailedIngestKeepsChunks ==
    [][(lastOp'.op = "ingest" /\ lastOp'.found /\ lastOp'.raised) =>
          /\ ragChunks' = ragChunks
          /\ chunkSeq' = chunkSeq
          /\ files' = files
          /\ \A r \in sourceDocs : r.id # lastOp'.doc => r \in sourceDocs'
          /\ \E r \in sourceDocs :
                /\ r.id = lastOp'.doc
                /\ [r EXCEPT !.index_status = "error"] \in sourceDocs'
          /\ Cardinality(sourceDocs') = Cardinality(sourceDocs)]_vars

\* C28 witness: an ingest of a document that owned chunks has failed, the
\* chunks are there, and another document is indexed
C28_Witness ==
    /\ lastOp.op = "ingest"
    /\ lastOp.found
    /\ lastOp.raised
    /\ lastOp.owned >= 1
    /\ Cardinality(ChunksOf(ragChunks, lastOp.doc)) = lastOp.owned
    /\ \E r \in sourceDocs : r.id # lastOp.doc /\ r.index_status # "error"

\* the source documents with the flags of a current, active, enabled document
AsCurrent(docs) ==
    {[r EXCEPT !.is_current = TRUE, !.status = "active", !.is_rag_enabled = TRUE,
               !.index_status = "indexed"] : r \in docs}

\* the retrieval chose by study, category, language of the owner and order_index alone
ChosenWhateverTheFlags(op) ==
    /\ \A t \in DOMAIN op.result :
          LET list == op.result[t]
              from == CandidatesOf(op, t)
          IN  /\ Range(list) \subseteq from
              /\ Len(list) = Smaller(op.limit, Cardinality(from))
              /\ Cardinality(Range(list)) = Len(list)
              /\ \A c \in from \ Range(list) :
                    \A i \in 1..Len(list) : list[i].order_index <= c.order_index
    /\ op.result \in retrieve_rag_chunks(ragChunks, AsCurrent(sourceDocs), op.study, op.types,
                                         op.limit, op.language)

\* C29: an upload leaves every stored chunk as it is, and a retrieval chooses
\* by the study, the category and the order_index of the chunks and the
\* language of their documents alone: the chunks of a document that is not
\* current, not active or not enabled are returned as those of a current one.
C29_RetrievalIgnoresDocumentFlags ==
    [][/\ lastOp'.op = "upload" => ragChunks' = ragChunks
       /\ lastOp'.op = "retrieve" => ChosenWhateverTheFlags(lastOp')]_vars

\* C29 witness: after an upload for the slot of an archived document that owns
\* chunks, a retrieval returned chunks of the archived and of the current
\* document
C29_Witness ==
    /\ lastOp.op = "retrieve"
    /\ "protocol" \in DOMAIN lastOp.result
    /\ \E i, j \in 1..Len(lastOp.result["protocol"]) :
          \E a, b \in sourceDocs :
             /\ a.id = lastOp.result["protocol"][i].source_document_id
             /\ b.id = lastOp.result["protocol"][j].source_document_id
             /\ a.status = "archived" /\ ~a.is_current /\ ~a.is_rag_enabled
             /\ b.status = "active" /\ b.is_current
             /\ a.language = b.language

\* C30: build_template_context does not depend on its language argument: on
\* the same stored rows, for the same study and extra_context, the mappings it
\* can return for 'ru' are those it can return for 'en', the mapping
\* returned among them; the context_* blocks are built from the chunks
\* retrieved without a language preference.
C30_ContextIgnoresLanguage ==
    (lastOp.op = "context" /\ ~lastOp.raised) =>
        /\ build_template_context(lastOp.study, lastOp.extra, "ru")
               = build_template_context(lastOp.study, lastOp.extra, "en")
        /\ \A language \in {"ru", "en"} :
              [rag |-> lastOp.rag, ctx |-> lastOp.ctx]
                  \in build_template_context(lastOp.study, lastOp.extra, language)
        /\ \A t \in DOMAIN lastOp.rag :
              Len(lastOp.rag[t]) = Smaller(DefaultLimitPerSource,
                                           Cardinality(StoredOf(lastOp.study, t)))

\* C30 witness: a context built with language 'en' for a study that has
\* Russian and English protocol chunks holds the text of both
C30_Witness ==
    /\ lastOp.op = "context"
    /\ ~lastOp.raised
    /\ lastOp.language = "en"
    /\ StoredInLanguage(lastOp.study, "protocol", "ru") # {}
    /\ StoredInLanguage(lastOp.study, "protocol", "en") # {}
    /\ Range(lastOp.rag["protocol"]) = StoredOf(lastOp.study, "protocol")
    /\ lastOp.ctx["context_protocol"].s # <<>>

====
